---- MODULE Spec2Model ----
(***************************************************************************)
(* A model of the yabetoo-cli webhook relay.  Each component has its own   *)
(* specification:                                                          *)
(*   FwdSpec / FairFwdSpec  one forwardWebhook call against a target whose *)
(*                          answers are chosen by the environment;         *)
(*   SseSpec                one SSEClient driven by its EventSource        *)
(*                          objects, its reconnect timers and close();     *)
(*   BackoffSpec            the delay computed by SSEClient.reconnect;     *)
(*   ListenSpec / FairListenSpec                                           *)
(*                          one run of the listen command;                 *)
(*   SigSpec                generateSignature followed by verifySignature; *)
(*   ParseSpec              parseSignatureHeader on one header;            *)
(*   HttpSpec               one heartbeat or unregister call;              *)
(*   CredSpec               the credentials file and its callers.          *)
(***************************************************************************)
EXTENDS Integers, Sequences, FiniteSets, Bags, TLC

VARIABLES
    \* ---- forwardWebhook: locals of one call ------------------------------
    fwPc,            \* "idle" | "fetch" | "text" | "sleep" | "resolved" | "rejected"
    maxRetries,      \* the maxRetries argument
    attempt,         \* loop variable
    lastError,       \* let lastError: string | undefined
    lastStatusCode,  \* let lastStatusCode: number | undefined
    response,        \* status of the response whose body is being read
    result,          \* the ForwardResult the promise resolved with
    posts,           \* number of fetch(url, {method: 'POST'}) calls issued
    outcomes,        \* per settled attempt: its status, or the message thrown
    sleeps,          \* the delays passed to sleep(), in order
    \* ---- SSEClient: fields of one instance ------------------------------
    eventSource,        \* this.eventSource: the object it refers to, or Null
    reconnectAttempts,  \* this.reconnectAttempts
    isClosing,          \* this.isClosing
    lastEventId,        \* this.lastEventId ("" for undefined)
    \* ---- SSEClient: what lives outside the instance ---------------------
    connected,          \* connect() has been called
    others,             \* bag of the EventSource objects created earlier
                        \* and not closed
    timers,             \* pending setTimeout callbacks of reconnect()
    \* ---- SSEClient: what the last handler did ---------------------------
    handler,            \* the handler that ran last ("close again": close()
                        \* on a client that was closed before)
    calls,              \* the option callbacks it invoked, in order
    sent,               \* the Last-Event-ID of each request it issued
    thrown,             \* an exception escaped it
    caught,             \* the catch block of the webhook listener ran
    decodedId,          \* id of the last decoded webhook event that has one
    exhausted,          \* 'Max reconnection attempts reached' was reported
    \* ---- SSEClient.reconnect: the backoff computation -------------------
    bkAttempts,         \* this.reconnectAttempts when the delay is computed
    bkRandom,           \* Math.random() * 1000, in whole milliseconds
    delay,              \* const delay (Undefined before it is computed)
    \* ---- listen: the process running the listen command -----------------
    pc,                 \* "start" | "resolve" | "registering" | "running"
                        \* | "exited"
    exitCode,           \* the code the process ended with, or Undefined
    inputs,             \* options.apiKey, config and credentials as read at
                        \* the top of listen
    noHeartbeat,        \* options.noHeartbeat
    httpClient,         \* the apiKey and accountId fields of the HttpClient
    authMethod,         \* let authMethod
    registrations,      \* registration requests sent
    registerResponse,   \* the answer to the registration request
    heartbeatInterval,  \* "null" | "armed" | "cleared" (after clearInterval)
    heartbeats,         \* heartbeat requests in flight
    hbLast,             \* how the heartbeat that settled last ended
    invocations,        \* the onWebhook invocations in the order they started:
                        \* the notification and where its delivery stands
    deliveredCount,     \* let deliveredCount
    failedCount,        \* let failedCount
    unregisters,        \* cleanup runs awaiting httpClient.unregister
    shutdown,           \* what the cleanup runs have done so far, in order
    report,             \* the statistics line logged by cleanup
    \* ---- signature.ts: one generateSignature / verifySignature pair -----
    sgPc,               \* "start" | "generated" | "verified"
    sgNow,              \* Math.floor(Date.now() / 1000)
    sgGen,              \* generateSignature: its arguments and its result
    sgVer,              \* verifySignature: its arguments and its result
    \* ---- signature.ts: one parseSignatureHeader call --------------------
    hdrElements,        \* the comma-free pieces the header is made of
    header,             \* the header argument
    parsed,             \* the value returned
    \* ---- HttpClient: one heartbeat or unregister call -------------------
    htPc,               \* "idle" | "fetch" | "settled"
    htCall,             \* the method called and its sessionId
    htRequests,         \* the requests passed to fetch
    htFetch,            \* how the fetch call ended
    htOutcome,          \* how the promise returned by the method settled
    \* ---- credentials.ts: the credentials file and its callers -----------
    crFile,             \* ~/.yabetoo/credentials.json: its text, or NoFile
    crNow,              \* Date.now()
    crSaved,            \* the argument of the last saveCredentials
    crOp,               \* the function that ran last
    crResult            \* what it returned

fwVars == <<fwPc, maxRetries, attempt, lastError, lastStatusCode, response,
            result, posts, outcomes, sleeps>>

sseVars == <<eventSource, reconnectAttempts, isClosing, lastEventId, connected,
             others, timers, handler, calls, sent, thrown, caught, decodedId,
             exhausted>>

bkVars == <<bkAttempts, bkRandom, delay>>

lsVars == <<pc, exitCode, inputs, noHeartbeat, httpClient, authMethod,
            registrations, registerResponse, heartbeatInterval, heartbeats, hbLast, invocations,
            deliveredCount, failedCount, unregisters, shutdown, report>>

sgVars == <<sgPc, sgNow, sgGen, sgVer>>

hdrVars == <<hdrElements, header, parsed>>

htVars == <<htPc, htCall, htRequests, htFetch, htOutcome>>

crVars == <<crFile, crNow, crSaved, crOp, crResult>>

\* the library functions, which share no state with the listen command
libVars == <<sgVars, hdrVars, htVars, crVars>>

vars == <<fwVars, sseVars, bkVars, lsVars, libVars>>

-----------------------------------------------------------------------------
(* Bounds of the model *)

\* largest maxRetries argument explored (the default argument, 3, is included)
MaxRetriesBound == 4

\* EventSource objects alive at the same time
MaxSources == 2

\* reconnect timers pending at the same time
MaxTimers == 2

\* notifications handed to listen's onWebhook in one run
MaxNotifications == 2

\* heartbeat requests in flight at the same time
MaxHeartbeats == 1

\* SIGINT / SIGTERM signals received in one run
MaxSignals == 2

\* comma-separated pieces of a signature header
MaxElements == 3

\* milliseconds the credentials clock advances
MaxClock == 3

-----------------------------------------------------------------------------
(* Values *)

\* JavaScript `undefined` in a numeric field (statusCode, body length)
Undefined == -1

\* string | undefined values of lastError / ForwardResult.error.  A response
\* body is represented by its length, the only thing slice() depends on.
UndefinedError == [kind |-> "undefined", message |-> "", len |-> 0]
MessageError(m) == [kind |-> "message", message |-> m, len |-> 0]
BodyError(n) == [kind |-> "body", message |-> "", len |-> n]

\* values fetch() can reject with: TypeError (transport) or the DOMException
\* raised by AbortSignal.timeout(30000); both are instances of Error
FetchErrors ==
    { [isError |-> TRUE, message |-> "ECONNREFUSED"],
      [isError |-> TRUE, message |-> "The operation was aborted due to timeout"] }

\* statuses the local target answers with
Statuses == {200, 204, 404, 500, 503}

\* outcomes of response.text(): the body's length, or a failed read
BodyLens == {0, 600}
TextOutcomes ==
    { [readable |-> TRUE, len |-> n] : n \in BodyLens }
        \cup { [readable |-> FALSE, len |-> 0] }

Min(a, b) == IF a <= b THEN a ELSE b

\* String.prototype.slice(0, n) on a body of length len
Slice(len, n) == Min(len, n)

\* response.ok
OkOnly200(status) == status = 200
Ok(status) == status >= 200 /\ status <= 299

\* error instanceof Error ? error.message : 'Unknown error'
ErrorMessage(e) == IF e.isError THEN e.message ELSE "Unknown error"

retryDelays == <<250, 1000, 3000>>

\* the table read at attempt - 1
RetryDelayFromOne(a) ==
    IF a >= 1 /\ a <= Len(retryDelays) THEN retryDelays[a] ELSE 3000

\* retryDelays[attempt] || 3000
RetryDelay(a) == IF a + 1 <= Len(retryDelays) THEN retryDelays[a + 1] ELSE 3000

\* for (...; attempt <= maxRetries; ...)
LoopConditionOffByOne(a, n) == a < n
LoopCondition(a, n) == a <= n

\* attempt < maxRetries
AttemptsRemainOffByOne(a, n) == a + 1 < n
AttemptsRemain(a, n) == a < n

\* response.status >= 500
IsServerErrorAlways(status) == TRUE
IsServerError(status) == status >= 500

NoResult == [success |-> FALSE, statusCode |-> Undefined,
             responseBody |-> Undefined, error |-> UndefinedError,
             settled |-> FALSE]

ForwardResult(success, statusCode, responseBody, error) ==
    [success |-> success, statusCode |-> statusCode,
     responseBody |-> responseBody, error |-> error, settled |-> TRUE]

-----------------------------------------------------------------------------
(* forwardWebhook *)

FwdInit ==
    /\ fwPc = "idle"
    /\ maxRetries = 0
    /\ attempt = 0
    /\ lastError = UndefinedError
    /\ lastStatusCode = Undefined
    /\ response = Undefined
    /\ result = NoResult
    /\ posts = 0
    /\ outcomes = <<>>
    /\ sleeps = <<>>

\* The loop head: either the next POST is issued, or the loop is left and the
\* statement after it returns.
LoopHead(a) ==
    IF LoopCondition(a, maxRetries)
    THEN /\ fwPc' = "fetch"
         /\ posts' = posts + 1
         /\ result' = result
    ELSE /\ fwPc' = "resolved"
         /\ posts' = posts
         /\ result' = ForwardResult(FALSE, lastStatusCode, Undefined,
                         IF lastError.kind = "undefined"
                            \/ (lastError.kind = "body" /\ lastError.len = 0)
                         THEN MessageError("Max retries exceeded")
                         ELSE lastError)

\* The call: the statements before the loop and the first pass of its head.
Call(n) ==
    /\ fwPc = "idle"
    /\ UNCHANGED <<sseVars, bkVars, lsVars, libVars>>
    /\ maxRetries' = n
    /\ attempt' = 0
    /\ lastError' = UndefinedError
    /\ lastStatusCode' = Undefined
    /\ LoopHead(0)
    /\ UNCHANGED <<response, outcomes, sleeps>>

\* fetch resolves with a response; response.text() is awaited next.
FetchResponse(status) ==
    /\ fwPc = "fetch"
    /\ UNCHANGED <<sseVars, bkVars, lsVars, libVars>>
    /\ fwPc' = "text"
    /\ response' = status
    /\ outcomes' = Append(outcomes, [status |-> status, message |-> ""])
    /\ UNCHANGED <<maxRetries, attempt, lastError, lastStatusCode, result,
                   posts, sleeps>>

\* The catch block, when it ends in `throw error` instead of a return.
CatchRethrows(e) ==
    /\ lastError' = MessageError(ErrorMessage(e))
    /\ IF AttemptsRemain(attempt, maxRetries)
       THEN /\ fwPc' = "sleep"
            /\ sleeps' = Append(sleeps, RetryDelay(attempt))
       ELSE /\ fwPc' = "rejected"
            /\ sleeps' = sleeps
    /\ result' = result

\* The catch block keeping the last status it saw.
CatchKeepsStatus(e) ==
    /\ lastError' = MessageError(ErrorMessage(e))
    /\ IF AttemptsRemain(attempt, maxRetries)
       THEN /\ fwPc' = "sleep"
            /\ sleeps' = Append(sleeps, RetryDelay(attempt))
            /\ result' = result
       ELSE /\ fwPc' = "resolved"
            /\ sleeps' = sleeps
            /\ result' = ForwardResult(FALSE, lastStatusCode, Undefined,
                                       lastError')

\* catch (error) { ... }
Catch(e) ==
    /\ lastError' = MessageError(ErrorMessage(e))
    /\ IF AttemptsRemain(attempt, maxRetries)
       THEN /\ fwPc' = "sleep"
            /\ sleeps' = Append(sleeps, RetryDelay(attempt))
            /\ result' = result
       ELSE /\ fwPc' = "resolved"
            /\ sleeps' = sleeps
            /\ result' = ForwardResult(FALSE, Undefined, Undefined, lastError')

\* fetch rejects (transport error, or the 30 s timeout aborts the request).
FetchReject(e) ==
    /\ fwPc = "fetch"
    /\ UNCHANGED <<sseVars, bkVars, lsVars, libVars>>
    /\ Catch(e)
    /\ outcomes' = Append(outcomes, [status |-> Undefined, message |-> e.message])
    /\ UNCHANGED <<maxRetries, attempt, lastStatusCode, response, posts>>

\* response.text().catch(() => '') settles; the rest of the try block runs.
TextSettle(t) ==
    /\ fwPc = "text"
    /\ UNCHANGED <<sseVars, bkVars, lsVars, libVars>>
    /\ LET responseBody == IF t.readable THEN t.len ELSE 0 IN
       IF Ok(response)
       THEN /\ fwPc' = "resolved"
            /\ result' = ForwardResult(TRUE, response,
                                       Slice(responseBody, 500), UndefinedError)
            /\ UNCHANGED <<lastStatusCode, lastError, sleeps>>
       ELSE /\ lastStatusCode' = response
            /\ lastError' = BodyError(Slice(responseBody, 200))
            /\ IF IsServerError(response) /\ AttemptsRemain(attempt, maxRetries)
               THEN /\ fwPc' = "sleep"
                    /\ sleeps' = Append(sleeps, RetryDelay(attempt))
                    /\ result' = result
               ELSE /\ fwPc' = "resolved"
                    /\ sleeps' = sleeps
                    /\ result' = ForwardResult(FALSE, response,
                                     Slice(responseBody, 500), lastError')
    /\ response' = Undefined
    /\ UNCHANGED <<maxRetries, attempt, posts, outcomes>>

\* sleep() resolves: `continue`, attempt++, and the loop head again.
SleepDone ==
    /\ fwPc = "sleep"
    /\ UNCHANGED <<sseVars, bkVars, lsVars, libVars>>
    /\ attempt' = attempt + 1
    /\ LoopHead(attempt + 1)
    /\ UNCHANGED <<maxRetries, lastError, lastStatusCode, response, outcomes,
                   sleeps>>

FwdNext ==
    \/ \E n \in (0 - 1)..MaxRetriesBound : Call(n)
    \/ \E status \in Statuses : FetchResponse(status)
    \/ \E e \in FetchErrors : FetchReject(e)
    \/ \E t \in TextOutcomes : TextSettle(t)
    \/ SleepDone

-----------------------------------------------------------------------------
(* SSEClient *)

\* private maxReconnectAttempts = 10
maxReconnectAttempts == 10

\* notification ids; "" stands for an absent id
Ids == {"evt_7", "evt_8"}
IdsOrNone == Ids \cup {""}

\* An EventSource object.  state: "fetching" (request sent, CONNECTING),
\* "open", "waiting" (CONNECTING, the object's own retry timer pending) or
\* "closed".  headers: the Last-Event-ID that createEventSource put into the
\* headers its customFetch closes over.  cursor: the object's own last event
\* id; it reaches a request only when headers has no Last-Event-ID to overwrite
\* it with, so it is tracked for those objects alone.
Source(state, headers, cursor) ==
    [state |-> state, headers |-> headers, cursor |-> cursor]

\* this.eventSource = null
Null == Source("null", "", "")

Live(src) == src.state \in {"fetching", "open", "waiting"}

\* the objects that can raise events: the one this.eventSource refers to, and
\* those created earlier and never closed
Sources ==
    (IF Live(eventSource) THEN {[current |-> TRUE, src |-> eventSource]} ELSE {})
        \cup {[current |-> FALSE, src |-> o] : o \in BagToSet(others)}

LiveCount == BagCardinality(others) + (IF Live(eventSource) THEN 1 ELSE 0)

\* the object w becomes new; a closed object nobody refers to is dropped
Put(w, new) ==
    IF w.current
    THEN /\ eventSource' = new
         /\ others' = others
    ELSE /\ eventSource' = eventSource
         /\ others' = (others (-) SetToBag({w.src}))
                          (+) (IF Live(new) THEN SetToBag({new}) ELSE EmptyBag)

\* the 'webhook' events a stream can carry: the protocol-level id
\* (messageEvent.lastEventId), and the data: a JSON notification with its id
\* field, the JSON value null, or text that JSON.parse rejects
WebhookEvents ==
    [lastEventId : IdsOrNone, id : IdsOrNone, json : {TRUE}, isNull : {FALSE}]
        \cup [lastEventId : IdsOrNone, id : {""}, json : {TRUE}, isNull : {TRUE}]
        \cup [lastEventId : IdsOrNone, id : {""}, json : {FALSE}, isNull : {FALSE}]

\* the message argument of onWebhook: the id of the notification, or
\* NullMessage when JSON.parse returned null
NullMessage == "null"
Message(ev) == IF ev.isNull THEN NullMessage ELSE ev.id

\* the id of a notification as the stream identifies it: the protocol-level
\* id of its event, or else the id field of the notification
EventId(ev) == IF ev.lastEventId # "" THEN ev.lastEventId ELSE ev.id

Callback(name, message, n) == [name |-> name, message |-> message, n |-> n]

\* customFetch: headers: {...init?.headers, ...headers}
CustomFetch(init, headers) == IF headers # "" THEN headers ELSE init

SseInit ==
    /\ eventSource = Null
    /\ reconnectAttempts = 0
    /\ isClosing = FALSE
    /\ lastEventId = ""
    /\ connected = FALSE
    /\ others = EmptyBag
    /\ timers = 0
    /\ handler = "constructor"
    /\ calls = <<>>
    /\ sent = <<>>
    /\ thrown = FALSE
    /\ caught = FALSE
    /\ decodedId = ""
    /\ exhausted = FALSE

\* createEventSource(): a new EventSource whose customFetch carries the
\* headers built here; its constructor issues the first request.  The object
\* this.eventSource referred to is not closed.
CreateEventSource ==
    /\ LiveCount < MaxSources
    /\ eventSource' = Source("fetching", lastEventId, "")
    /\ others' = IF Live(eventSource)
                 THEN others (+) SetToBag({eventSource}) ELSE others
    /\ sent' = <<CustomFetch("", lastEventId)>>

\* connect(); listen calls it once, right after constructing the client
ConnectMethod ==
    /\ ~connected
    /\ connected' = TRUE
    /\ isClosing' = FALSE
    /\ CreateEventSource
    /\ handler' = "connect"
    /\ calls' = <<>>
    /\ thrown' = FALSE
    /\ caught' = FALSE
    /\ UNCHANGED <<reconnectAttempts, lastEventId, timers, decodedId, exhausted>>

Connect == ConnectMethod /\ UNCHANGED <<fwVars, bkVars, lsVars, libVars>>

\* close() without the `if (this.eventSource)` test
CloseUnchecked ==
    /\ connected
    /\ UNCHANGED <<fwVars, bkVars, lsVars, libVars>>
    /\ isClosing' = TRUE
    /\ thrown' = (eventSource = Null)
    /\ caught' = FALSE
    /\ eventSource' = Null
    /\ handler' = IF isClosing THEN "close again" ELSE "close"
    /\ calls' = <<>>
    /\ sent' = <<>>
    /\ UNCHANGED <<reconnectAttempts, lastEventId, connected, others, timers,
                   decodedId, exhausted>>

\* close(); the shutdown handler of listen calls it on every SIGINT / SIGTERM
CloseMethod ==
    /\ connected
    /\ isClosing' = TRUE
    /\ eventSource' = Null
    /\ handler' = IF isClosing THEN "close again" ELSE "close"
    /\ calls' = <<>>
    /\ sent' = <<>>
    /\ thrown' = FALSE
    /\ caught' = FALSE
    /\ UNCHANGED <<reconnectAttempts, lastEventId, connected, others, timers,
                   decodedId, exhausted>>

Close == CloseMethod /\ UNCHANGED <<fwVars, bkVars, lsVars, libVars>>

\* onopen without `this.reconnectAttempts = 0`
OnOpenKeepsCount(w) ==
    /\ w.src.state = "fetching"
    /\ UNCHANGED <<fwVars, bkVars, lsVars, libVars>>
    /\ Put(w, [w.src EXCEPT !.state = "open"])
    /\ handler' = "open"
    /\ calls' = <<Callback("onConnected", "", 0)>>
    /\ sent' = <<>>
    /\ thrown' = FALSE
    /\ caught' = FALSE
    /\ UNCHANGED <<reconnectAttempts, isClosing, lastEventId, connected,
                   timers, decodedId, exhausted>>

\* eventSource.onopen
OnOpen(w) ==
    /\ w.src.state = "fetching"
    /\ UNCHANGED <<fwVars, bkVars, lsVars, libVars>>
    /\ Put(w, [w.src EXCEPT !.state = "open"])
    /\ reconnectAttempts' = 0
    /\ handler' = "open"
    /\ calls' = <<Callback("onConnected", "", 0)>>
    /\ sent' = <<>>
    /\ thrown' = FALSE
    /\ caught' = FALSE
    /\ UNCHANGED <<isClosing, lastEventId, connected, timers, decodedId,
                   exhausted>>

\* if (this.isClosing) return   -- in onerror, in reconnect, in the timer
NeverSuppressed == FALSE
OnErrorSuppressed == isClosing
ReconnectSuppressed == isClosing
TimerSuppressed == isClosing

\* the test of reconnect() with > in place of >=
BudgetSpentAfter == reconnectAttempts > maxReconnectAttempts

\* this.reconnectAttempts >= this.maxReconnectAttempts
BudgetSpent == reconnectAttempts >= maxReconnectAttempts

\* reconnect() with onReconnecting invoked before the increment
ReconnectCallsFirst(before) ==
    IF ReconnectSuppressed
    THEN /\ calls' = before
         /\ UNCHANGED <<reconnectAttempts, timers, exhausted>>
    ELSE IF BudgetSpent
    THEN /\ calls' = Append(before, Callback("onDisconnected",
                                "Max reconnection attempts reached", 0))
         /\ exhausted' = TRUE
         /\ UNCHANGED <<reconnectAttempts, timers>>
    ELSE /\ timers < MaxTimers
         /\ reconnectAttempts' = reconnectAttempts + 1
         /\ calls' = Append(before,
                        Callback("onReconnecting", "", reconnectAttempts))
         /\ timers' = timers + 1
         /\ UNCHANGED exhausted

\* reconnect(), run after the callbacks `before`
Reconnect(before) ==
    IF ReconnectSuppressed
    THEN /\ calls' = before
         /\ UNCHANGED <<reconnectAttempts, timers, exhausted>>
    ELSE IF BudgetSpent
    THEN /\ calls' = Append(before, Callback("onDisconnected",
                                "Max reconnection attempts reached", 0))
         /\ exhausted' = TRUE
         /\ UNCHANGED <<reconnectAttempts, timers>>
    ELSE /\ timers < MaxTimers
         /\ reconnectAttempts' = reconnectAttempts + 1
         /\ calls' = Append(before,
                        Callback("onReconnecting", "", reconnectAttempts + 1))
         /\ timers' = timers + 1
         /\ UNCHANGED exhausted

\* eventSource.onerror.  The EventSource raises it when a request fails or an
\* open stream ends, and then retries by itself after its own delay
\* (fatal = FALSE); a response that is not a 200 event stream closes the
\* object for good (fatal = TRUE).
OnError(w, fatal) ==
    /\ w.src.state \in {"fetching", "open"}
    /\ UNCHANGED <<fwVars, bkVars, lsVars, libVars>>
    /\ fatal => w.src.state = "fetching"
    /\ Put(w, [w.src EXCEPT !.state = IF fatal THEN "closed" ELSE "waiting"])
    /\ IF OnErrorSuppressed
       THEN /\ calls' = <<>>
            /\ UNCHANGED <<reconnectAttempts, timers, exhausted>>
       ELSE Reconnect(<<Callback("onDisconnected", "SSE connection error", 0)>>)
    /\ handler' = "error"
    /\ sent' = <<>>
    /\ thrown' = FALSE
    /\ caught' = FALSE
    /\ UNCHANGED <<isClosing, lastEventId, connected, decodedId>>

\* The retry timer of an EventSource fires: the object calls customFetch again,
\* with its own cursor as Last-Event-ID in init.headers.
SourceRetry(w) ==
    /\ w.src.state = "waiting"
    /\ UNCHANGED <<fwVars, bkVars, lsVars, libVars>>
    /\ Put(w, [w.src EXCEPT !.state = "fetching"])
    /\ sent' = <<CustomFetch(w.src.cursor, w.src.headers)>>
    /\ handler' = "retry"
    /\ calls' = <<>>
    /\ thrown' = FALSE
    /\ caught' = FALSE
    /\ UNCHANGED <<reconnectAttempts, isClosing, lastEventId, connected,
                   timers, decodedId, exhausted>>

\* the update with the operands of || exchanged: message.id first
NextLastEventIdBodyFirst(ev) ==
    IF ev.id # "" THEN ev.id
    ELSE IF ev.lastEventId # "" THEN ev.lastEventId
    ELSE lastEventId

\* the id the listener stores for a decoded message
NextLastEventId(ev) ==
    IF ev.lastEventId # "" THEN ev.lastEventId
    ELSE IF ev.id # "" THEN ev.id
    ELSE lastEventId

\* the try block throws: JSON.parse rejects the data (SyntaxError), or
\* message.id is read from null (TypeError), which happens only when
\* messageEvent.lastEventId is empty
Throws(ev) == ~ev.json \/ (ev.isNull /\ ev.lastEventId = "")

\* the listener with its statements outside any try block
OnWebhookNoCatch(w, ev) ==
    /\ w.src.state = "open"
    /\ UNCHANGED <<fwVars, bkVars, lsVars, libVars>>
    /\ Put(w, [w.src EXCEPT !.cursor =
                  IF w.src.headers # "" THEN ""
                  ELSE IF ev.lastEventId # "" THEN ev.lastEventId ELSE @])
    /\ IF ~Throws(ev)
       THEN /\ lastEventId' = NextLastEventId(ev)
            /\ calls' = <<Callback("onWebhook", Message(ev), 0)>>
            /\ decodedId' = IF EventId(ev) # "" THEN EventId(ev) ELSE decodedId
       ELSE /\ calls' = <<>>
            /\ UNCHANGED <<lastEventId, decodedId>>
    /\ handler' = "webhook"
    /\ sent' = <<>>
    /\ thrown' = Throws(ev)
    /\ caught' = FALSE
    /\ UNCHANGED <<reconnectAttempts, isClosing, connected, timers, exhausted>>

\* addEventListener('webhook', ...)
OnWebhook(w, ev) ==
    /\ w.src.state = "open"
    /\ UNCHANGED <<fwVars, bkVars, lsVars, libVars>>
    /\ Put(w, [w.src EXCEPT !.cursor =
                  IF w.src.headers # "" THEN ""
                  ELSE IF ev.lastEventId # "" THEN ev.lastEventId ELSE @])
    /\ IF ~Throws(ev)
       THEN /\ lastEventId' = NextLastEventId(ev)
            /\ calls' = <<Callback("onWebhook", Message(ev), 0)>>
            /\ decodedId' = IF EventId(ev) # "" THEN EventId(ev) ELSE decodedId
       ELSE /\ calls' = <<>>
            /\ UNCHANGED <<lastEventId, decodedId>>
    /\ handler' = "webhook"
    /\ sent' = <<>>
    /\ thrown' = FALSE
    /\ caught' = Throws(ev)
    /\ UNCHANGED <<reconnectAttempts, isClosing, connected, timers, exhausted>>

\* the setTimeout callback of reconnect()
TimerFire ==
    /\ timers > 0
    /\ UNCHANGED <<fwVars, bkVars, lsVars, libVars>>
    /\ timers' = timers - 1
    /\ IF TimerSuppressed
       THEN /\ sent' = <<>>
            /\ UNCHANGED <<eventSource, others>>
       ELSE CreateEventSource
    /\ handler' = "timer"
    /\ calls' = <<>>
    /\ thrown' = FALSE
    /\ caught' = FALSE
    /\ UNCHANGED <<reconnectAttempts, isClosing, lastEventId, connected,
                   decodedId, exhausted>>

\* the events the EventSource objects raise
OpenEvent == \E w \in Sources : OnOpen(w)
ErrorEvent == \E w \in Sources, fatal \in BOOLEAN : OnError(w, fatal)
RetryEvent == \E w \in Sources : SourceRetry(w)
WebhookEvent == \E w \in Sources, ev \in WebhookEvents : OnWebhook(w, ev)

SseNext ==
    \/ Connect
    \/ Close
    \/ OpenEvent
    \/ ErrorEvent
    \/ RetryEvent
    \/ WebhookEvent
    \/ TimerFire

-----------------------------------------------------------------------------
(* SSEClient.reconnect: the delay of the reconnect timer *)

\* private reconnectBaseDelay = 1000
reconnectBaseDelay == 1000

\* the values of Math.random() * 1000, to the millisecond
Jitters == 0..999

\* the delay without the cap
DelayUncapped(k, random) == reconnectBaseDelay * 2 ^ (k - 1) + random

\* Math.min(reconnectBaseDelay * Math.pow(2, reconnectAttempts - 1)
\*              + Math.random() * 1000, 30000)
Delay(k, random) == Min(reconnectBaseDelay * 2 ^ (k - 1) + random, 30000)

\* no delay is being computed
BackoffIdle ==
    /\ bkAttempts = 0
    /\ bkRandom = 0
    /\ delay = Undefined

\* reconnect() has passed its two tests and incremented the counter, which is
\* now in 1..maxReconnectAttempts; Math.random() has returned
BackoffInit ==
    /\ bkAttempts \in 1..maxReconnectAttempts
    /\ bkRandom \in Jitters
    /\ delay = Undefined

ComputeDelay ==
    /\ delay = Undefined
    /\ delay' = Delay(bkAttempts, bkRandom)
    /\ UNCHANGED <<fwVars, sseVars, lsVars, libVars, bkAttempts, bkRandom>>

-----------------------------------------------------------------------------
(* listen: the session controller *)

\* Strings that are tested with startsWith are sequences of characters; the
\* empty sequence stands for '' and for undefined, which `!apiKey` and `||`
\* treat alike.
NoKey == <<>>
SkTest == <<"s", "k", "_", "t", "e", "s", "t", "_">>
SkLive == <<"s", "k", "_", "l", "i", "v", "e", "_">>
KeyTest == SkTest \o <<"1">>
KeyLive == SkLive \o <<"2">>
KeyPublishable == <<"p", "k", "_", "t", "e", "s", "t", "_", "3">>
KeyShort == <<"s", "k", "_", "t", "e", "s", "t">>
CliToken == <<"c", "l", "i", "_", "t", "o", "k">>

\* String.prototype.startsWith
StartsWith(str, prefix) ==
    Len(str) >= Len(prefix) /\ SubSeq(str, 1, Len(prefix)) = prefix

\* a validateApiKey that accepts every secret key prefix
ValidateApiKeyLoose(key) == StartsWith(key, <<"s", "k", "_">>)

\* validateApiKey
ValidateApiKey(key) == StartsWith(key, SkTest) \/ StartsWith(key, SkLive)

\* loadCredentials(): null, or the stored credentials when the file exists,
\* parses and has not expired
NoCredentials == [cliToken |-> NoKey, accountId |-> ""]
StoredCredentials == {[cliToken |-> CliToken, accountId |-> "acc_1"]}

\* what listen reads before it resolves the authentication: options.apiKey,
\* and loadConfig() over YABETOO_API_KEY || YABETOO_SECRET_KEY and
\* YABETOO_ACCOUNT_ID, and loadCredentials()
NoInputs == [apiKey |-> NoKey, configApiKey |-> NoKey, configAccountId |-> "",
             credentials |-> NoCredentials]
Inputs ==
    [apiKey : {NoKey, KeyTest, KeyPublishable},
     configApiKey : {NoKey, KeyLive, KeyShort},
     configAccountId : {"", "acc_env"},
     credentials : {NoCredentials} \cup StoredCredentials]

NoClient == [apiKey |-> NoKey, accountId |-> ""]

\* let apiKey = options.apiKey || config.apiKey
ApiKey(in) == IF in.apiKey # NoKey THEN in.apiKey ELSE in.configApiKey

\* the test with the stored credentials tried first
UsesStoredFirst(in) == in.credentials # NoCredentials

\* the stored token takes the place of the key: !apiKey && credentials
UsesStored(in) == ApiKey(in) = NoKey /\ in.credentials # NoCredentials

\* the answers to the registration request: a 2xx response with the session
\* as its JSON body, a 2xx response whose body response.json() rejects, a
\* non-2xx response, or a transport error
RegisterOutcomes ==
    { [status |-> st, json |-> TRUE] : st \in {200, 201, 400, 401, 500} }
        \cup { [status |-> 200, json |-> FALSE],
               [status |-> Undefined, json |-> FALSE] }

NoResponse == [status |-> Undefined, json |-> TRUE]

\* a registerDevListener that returns the body whatever the status
RegisterThrowsOnTransportOnly(o) == o.status = Undefined \/ ~o.json

\* registerDevListener throws
RegisterThrows(o) == o.status = Undefined \/ ~Ok(o.status) \/ ~o.json

\* the answers to a heartbeat and to the DELETE of unregister: a status, or
\* Undefined for a transport error
ServiceOutcomes == {200, 204, 404, 500, Undefined}

\* a heartbeat that fails on client and server errors only
HeartbeatThrowsFrom400(status) == status = Undefined \/ status >= 400

\* HttpClient.heartbeat throws
HeartbeatThrows(status) ==
    status = Undefined \/ (~Ok(status) /\ status # 204)

\* the callbacks an SSEClient invokes, with their arguments (for onWebhook:
\* the notification's id, or NullMessage; listen passes the id on and does
\* not look at it)
ClientCallbacks ==
    { Callback("onConnected", "", 0) }
        \cup { Callback("onDisconnected", m, 0) :
                 m \in {"SSE connection error",
                        "Max reconnection attempts reached"} }
        \cup { Callback("onReconnecting", "", n) : n \in 1..maxReconnectAttempts }
        \cup { Callback("onWebhook", m, 0) : m \in Ids \cup {NullMessage} }

ListenIdle ==
    /\ pc = "start"
    /\ exitCode = Undefined
    /\ inputs = NoInputs
    /\ noHeartbeat = FALSE
    /\ httpClient = NoClient
    /\ authMethod = "api_key"
    /\ registrations = 0
    /\ registerResponse = NoResponse
    /\ heartbeatInterval = "null"
    /\ heartbeats = 0
    /\ hbLast = "none"
    /\ invocations = <<>>
    /\ deliveredCount = 0
    /\ failedCount = 0
    /\ unregisters = 0
    /\ shutdown = <<>>
    /\ report = <<>>

\* process.exit(code)
Exit(code) ==
    /\ pc' = "exited"
    /\ exitCode' = code

\* the command is invoked: listen(options) loads the configuration and the
\* stored credentials
Start(in, noHb) ==
    /\ pc = "start"
    /\ pc' = "resolve"
    /\ inputs' = in
    /\ noHeartbeat' = noHb
    /\ UNCHANGED <<fwVars, sseVars, bkVars, libVars>>
    /\ UNCHANGED <<exitCode, httpClient, authMethod, registrations, registerResponse,
                   heartbeatInterval, heartbeats, hbLast, invocations,
                   deliveredCount, failedCount, unregisters, shutdown, report>>

\* the authentication is resolved and validated; the HttpClient is
\* constructed and the registration request sent
Authenticate ==
    /\ pc = "resolve"
    /\ LET apiKey == ApiKey(inputs)
           cliToken == IF UsesStored(inputs)
                       THEN inputs.credentials.cliToken ELSE NoKey
           accountId == IF UsesStored(inputs)
                        THEN inputs.credentials.accountId
                        ELSE inputs.configAccountId
       IN
       IF (apiKey = NoKey /\ cliToken = NoKey)
            \/ (apiKey # NoKey /\ ~ValidateApiKey(apiKey))
       THEN /\ Exit(1)
            /\ UNCHANGED <<httpClient, authMethod, registrations>>
       ELSE /\ pc' = "registering"
            /\ authMethod' = IF UsesStored(inputs) THEN "cli_token" ELSE "api_key"
            /\ httpClient' = [apiKey |-> IF apiKey # NoKey THEN apiKey ELSE cliToken,
                              accountId |-> accountId]
            /\ registrations' = registrations + 1
            /\ UNCHANGED exitCode
    /\ UNCHANGED <<fwVars, sseVars, bkVars, libVars>>
    /\ UNCHANGED <<inputs, noHeartbeat, registerResponse, heartbeatInterval,
                   heartbeats, hbLast, invocations, deliveredCount,
                   failedCount, unregisters, shutdown, report>>

\* the registration request settles: on failure exit(1); otherwise the
\* heartbeat interval is set, the SSEClient constructed and connected and the
\* signal handlers installed
RegisterSettle(o) ==
    /\ pc = "registering"
    /\ registerResponse' = o
    /\ IF RegisterThrows(o)
       THEN /\ Exit(1)
            /\ UNCHANGED <<heartbeatInterval, sseVars>>
       ELSE /\ pc' = "running"
            /\ heartbeatInterval' = IF ~noHeartbeat THEN "armed" ELSE "null"
            /\ ConnectMethod
            /\ UNCHANGED exitCode
    /\ UNCHANGED <<fwVars, bkVars, libVars>>
    /\ UNCHANGED <<inputs, noHeartbeat, httpClient, authMethod, registrations,
                   heartbeats, hbLast, invocations, deliveredCount,
                   failedCount, unregisters, shutdown, report>>

\* a setInterval callback that runs only when no delivery is in progress
HeartbeatTickSerial ==
    /\ pc = "running"
    /\ heartbeatInterval = "armed"
    /\ heartbeats < MaxHeartbeats
    /\ \A i \in 1..Len(invocations) : invocations[i].state # "forwarding"
    /\ heartbeats' = heartbeats + 1
    /\ UNCHANGED <<fwVars, sseVars, bkVars, libVars>>
    /\ UNCHANGED <<pc, exitCode, inputs, noHeartbeat, httpClient, authMethod,
                   registrations, registerResponse, heartbeatInterval, hbLast, invocations,
                   deliveredCount, failedCount, unregisters, shutdown, report>>

\* the setInterval callback: a heartbeat request is sent
HeartbeatTick ==
    /\ pc = "running"
    /\ heartbeatInterval = "armed"
    /\ heartbeats < MaxHeartbeats
    /\ heartbeats' = heartbeats + 1
    /\ UNCHANGED <<fwVars, sseVars, bkVars, libVars>>
    /\ UNCHANGED <<pc, exitCode, inputs, noHeartbeat, httpClient, authMethod,
                   registrations, registerResponse, heartbeatInterval, hbLast, invocations,
                   deliveredCount, failedCount, unregisters, shutdown, report>>

\* a heartbeat whose failure ends the process
HeartbeatSettleFatal(status) ==
    /\ pc = "running"
    /\ heartbeats > 0
    /\ heartbeats' = heartbeats - 1
    /\ hbLast' = IF HeartbeatThrows(status) THEN "failed" ELSE "ok"
    /\ IF HeartbeatThrows(status)
       THEN Exit(1)
       ELSE UNCHANGED <<pc, exitCode>>
    /\ UNCHANGED <<fwVars, sseVars, bkVars, libVars>>
    /\ UNCHANGED <<inputs, noHeartbeat, httpClient, authMethod,
                   registrations, registerResponse, heartbeatInterval, invocations,
                   deliveredCount, failedCount, unregisters, shutdown, report>>

\* a heartbeat request settles: a failure is caught and logged as a warning
HeartbeatSettle(status) ==
    /\ pc = "running"
    /\ heartbeats > 0
    /\ heartbeats' = heartbeats - 1
    /\ hbLast' = IF HeartbeatThrows(status) THEN "failed" ELSE "ok"
    /\ UNCHANGED <<fwVars, sseVars, bkVars, libVars>>
    /\ UNCHANGED <<pc, exitCode, inputs, noHeartbeat, httpClient, authMethod,
                   registrations, registerResponse, heartbeatInterval, invocations,
                   deliveredCount, failedCount, unregisters, shutdown, report>>

\* the invocations whose forwardWebhook call has not resolved yet
Forwarding == {i \in 1..Len(invocations) : invocations[i].state = "forwarding"}

\* an onWebhook whose POST is issued ahead of those of earlier notifications
OnWebhookCallbackFirst(message) ==
    IF message = NullMessage
    THEN /\ Exit(1)
         /\ UNCHANGED invocations
    ELSE /\ Len(invocations) < MaxNotifications
         /\ invocations' = <<[id |-> message, state |-> "forwarding"]>>
                               \o invocations
         /\ UNCHANGED <<pc, exitCode>>

\* listen's onWebhook up to its await: forwardWebhook is called and issues
\* its first POST.  Reading message.id from null rejects the promise of the
\* async handler; nothing handles the rejection and the process ends with
\* code 1.
OnWebhookCallback(message) ==
    IF message = NullMessage
    THEN /\ Exit(1)
         /\ UNCHANGED invocations
    ELSE /\ Len(invocations) < MaxNotifications
         /\ invocations' = Append(invocations,
                               [id |-> message, state |-> "forwarding"])
         /\ UNCHANGED <<pc, exitCode>>

\* The SSEClient invokes one of the callbacks listen gave it.  The run is
\* followed up to close(); what the EventSource objects of a closed client
\* still raise is a matter of the SSEClient.
ClientCallback(c) ==
    /\ pc = "running"
    /\ connected
    /\ ~isClosing
    /\ IF c.name = "onWebhook"
       THEN OnWebhookCallback(c.message)
       ELSE UNCHANGED <<pc, exitCode, invocations>>
    /\ UNCHANGED <<fwVars, sseVars, bkVars, libVars>>
    /\ UNCHANGED <<inputs, noHeartbeat, httpClient, authMethod, registrations, registerResponse,
                   heartbeatInterval, heartbeats, hbLast, deliveredCount,
                   failedCount, unregisters, shutdown, report>>

\* the rest of onWebhook with both counters incremented
CountBoth(i, success) ==
    /\ invocations' = [invocations EXCEPT ![i].state =
                          IF success THEN "delivered" ELSE "failed"]
    /\ deliveredCount' = deliveredCount + 1
    /\ failedCount' = failedCount + 1

\* the rest of onWebhook: result.success decides the counter
Count(i, success) ==
    /\ invocations' = [invocations EXCEPT ![i].state =
                          IF success THEN "delivered" ELSE "failed"]
    /\ IF success
       THEN /\ deliveredCount' = deliveredCount + 1
            /\ failedCount' = failedCount
       ELSE /\ failedCount' = failedCount + 1
            /\ deliveredCount' = deliveredCount

\* an onWebhook that gives up the session when the delivery failed
ForwardSettleFatal(i, success) ==
    /\ pc = "running"
    /\ i \in Forwarding
    /\ Count(i, success)
    /\ IF success THEN UNCHANGED <<pc, exitCode>> ELSE Exit(1)
    /\ UNCHANGED <<fwVars, sseVars, bkVars, libVars>>
    /\ UNCHANGED <<inputs, noHeartbeat, httpClient, authMethod,
                   registrations, registerResponse, heartbeatInterval, heartbeats, hbLast,
                   unregisters, shutdown, report>>

\* the forwardWebhook call of invocation i resolves (it always resolves with
\* a ForwardResult and never rejects); onWebhook resumes after its await
ForwardSettle(i, success) ==
    /\ pc = "running"
    /\ i \in Forwarding
    /\ Count(i, success)
    /\ UNCHANGED <<fwVars, sseVars, bkVars, libVars>>
    /\ UNCHANGED <<pc, exitCode, inputs, noHeartbeat, httpClient, authMethod,
                   registrations, registerResponse, heartbeatInterval, heartbeats, hbLast,
                   unregisters, shutdown, report>>

\* cleanup up to its await, without the close of the SSE client
CleanupKeepsStream ==
    /\ heartbeatInterval' =
          IF heartbeatInterval = "null" THEN "null" ELSE "cleared"
    /\ UNCHANGED sseVars
    /\ shutdown' = shutdown \o
          (IF heartbeatInterval = "null" THEN <<>> ELSE <<"clearInterval">>)
          \o <<"unregister">>
    /\ unregisters' = unregisters + 1

\* cleanup up to its await: clearInterval, sseClient.close(), and the DELETE
\* request of httpClient.unregister
Cleanup ==
    /\ heartbeatInterval' =
          IF heartbeatInterval = "null" THEN "null" ELSE "cleared"
    /\ CloseMethod
    /\ shutdown' = shutdown \o
          (IF heartbeatInterval = "null" THEN <<>> ELSE <<"clearInterval">>)
          \o <<"close", "unregister">>
    /\ unregisters' = unregisters + 1

\* SIGINT or SIGTERM arrives once the handlers are installed
Signal ==
    /\ pc = "running"
    /\ Len(SelectSeq(shutdown, LAMBDA op : op = "unregister")) < MaxSignals
    /\ Cleanup
    /\ UNCHANGED <<fwVars, bkVars, libVars>>
    /\ UNCHANGED <<pc, exitCode, inputs, noHeartbeat, httpClient, authMethod,
                   registrations, registerResponse, heartbeats, hbLast, invocations,
                   deliveredCount, failedCount, report>>

\* the exit code of a cleanup that lets the failure of unregister through
ExitCodeOfUnregister(status) ==
    IF status = Undefined \/ ~Ok(status) THEN 1 ELSE 0

\* the exit code of cleanup: unregister swallows every failure of its request
\* and does not look at the status
CleanupExitCode(status) == 0

\* the DELETE request of a cleanup run settles: the statistics are logged and
\* the process exits
UnregisterSettle(status) ==
    /\ pc = "running"
    /\ unregisters > 0
    /\ unregisters' = unregisters - 1
    /\ shutdown' = shutdown \o <<"statistics", "exit">>
    /\ report' = <<deliveredCount, failedCount>>
    /\ Exit(CleanupExitCode(status))
    /\ UNCHANGED <<fwVars, sseVars, bkVars, libVars>>
    /\ UNCHANGED <<inputs, noHeartbeat, httpClient, authMethod, registrations, registerResponse,
                   heartbeatInterval, heartbeats, hbLast, invocations,
                   deliveredCount, failedCount>>

ListenNext ==
    \/ \E in \in Inputs, noHb \in BOOLEAN : Start(in, noHb)
    \/ Authenticate
    \/ \E o \in RegisterOutcomes : RegisterSettle(o)
    \/ HeartbeatTick
    \/ \E status \in ServiceOutcomes : HeartbeatSettle(status)
    \/ \E c \in ClientCallbacks : ClientCallback(c)
    \/ \E i \in 1..MaxNotifications, success \in BOOLEAN : ForwardSettle(i, success)
    \/ Signal
    \/ \E status \in ServiceOutcomes : UnregisterSettle(status)

-----------------------------------------------------------------------------
(* signature.ts: strings *)

\* A string is the sequence of its characters (UTF-16 code units).

\* String.prototype.indexOf: the first position of c in str, 0 when absent
IndexOf(str, c) ==
    IF \E i \in 1..Len(str) : str[i] = c
    THEN CHOOSE i \in 1..Len(str) :
             str[i] = c /\ \A j \in 1..(i - 1) : str[j] # c
    ELSE 0

\* header.split(',')
RECURSIVE Split(_)
Split(str) ==
    LET i == IndexOf(str, ",")
    IN  IF i = 0 THEN <<str>>
        ELSE <<SubSeq(str, 1, i - 1)>> \o Split(SubSeq(str, i + 1, Len(str)))

\* elements.find((e) => e.startsWith(prefix)): the position of the first such
\* element, 0 for undefined
Find(elements, prefix) ==
    IF \E i \in 1..Len(elements) : StartsWith(elements[i], prefix)
    THEN CHOOSE i \in 1..Len(elements) :
             /\ StartsWith(elements[i], prefix)
             /\ \A j \in 1..(i - 1) : ~StartsWith(elements[j], prefix)
    ELSE 0

\* String.prototype.slice(n)
SliceFrom(str, n) == SubSeq(str, n + 1, Len(str))

Digits == <<"0", "1", "2", "3", "4", "5", "6", "7", "8", "9">>
IsDigit(c) == \E d \in 1..Len(Digits) : Digits[d] = c
DigitValue(c) == (CHOOSE d \in 1..Len(Digits) : Digits[d] = c) - 1

\* white space that parseInt skips
WhiteSpace == {" "}

RECURSIVE TrimStart(_)
TrimStart(str) ==
    IF str # <<>> /\ Head(str) \in WhiteSpace
    THEN TrimStart(Tail(str)) ELSE str

\* the longest prefix of str made of decimal digits
LeadingDigits(str) ==
    LET n == CHOOSE k \in 0..Len(str) :
                 /\ \A i \in 1..k : IsDigit(str[i])
                 /\ k = Len(str) \/ ~IsDigit(str[k + 1])
    IN  SubSeq(str, 1, n)

RECURSIVE DecimalValue(_)
DecimalValue(ds) ==
    IF ds = <<>> THEN 0
    ELSE DecimalValue(SubSeq(ds, 1, Len(ds) - 1)) * 10
             + DigitValue(ds[Len(ds)])

\* a number: NaN, or an integer
NaN == [isNaN |-> TRUE, value |-> 0]
Number(n) == [isNaN |-> FALSE, value |-> n]

\* parseInt(str, 10): leading white space is skipped, a sign is accepted, the
\* digits that follow are read up to the first character that is no digit;
\* NaN when there is no digit to read
ParseInt(str) ==
    LET t == TrimStart(str)
        signed == t # <<>> /\ Head(t) \in {"-", "+"}
        negative == t # <<>> /\ Head(t) = "-"
        ds == LeadingDigits(IF signed THEN Tail(t) ELSE t)
    IN  IF ds = <<>> THEN NaN
        ELSE Number(IF negative THEN 0 - DecimalValue(ds)
                    ELSE DecimalValue(ds))

\* `${n}` for an integer n
RECURSIVE ToDecimal(_)
ToDecimal(n) ==
    IF n < 0 THEN <<"-">> \o ToDecimal(0 - n)
    ELSE IF n < 10 THEN <<Digits[n + 1]>>
    ELSE ToDecimal(n \div 10) \o <<Digits[(n % 10) + 1]>>

\* The UTF-8 encoding of a character, in hexadecimal (Buffer.from(string) and
\* hmac.update(string) encode strings as UTF-8).
Utf8Char(c) ==
    CASE IsDigit(c) -> <<"3", c>>
      [] c = "a" -> <<"6", "1">>
      [] c = "b" -> <<"6", "2">>
      [] c = "c" -> <<"6", "3">>
      [] c = "d" -> <<"6", "4">>
      [] c = "e" -> <<"6", "5">>
      [] c = "f" -> <<"6", "6">>
      [] c = "j" -> <<"6", "a">>
      [] c = "k" -> <<"6", "b">>
      [] c = "," -> <<"2", "c">>
      [] c = "-" -> <<"2", "d">>
      [] c = "." -> <<"2", "e">>

\* the UTF-8 encoding of a string, character by character
Utf8(str) == [i \in 1..Len(str) |-> Utf8Char(str[i])]

\* number of bytes of the encoding: the characters explored take one each
ByteLength(str) == Len(str)

\* the hexadecimal digits of an encoding, in one string
RECURSIVE Hex(_)
Hex(bytes) == IF Len(bytes) = 0 THEN <<>> ELSE Head(bytes) \o Hex(Tail(bytes))

-----------------------------------------------------------------------------
(* signature.ts: parseSignatureHeader, generateSignature, verifySignature *)

\* block size of SHA-256, in bytes
BlockSize == 64

\* The key of an HMAC (RFC 2104): the secret, with zero bytes appended up to
\* the block size.  (A secret longer than the block is hashed first; the
\* secrets explored are shorter.)
PadKey(key) == key \o [i \in 1..(2 * BlockSize - Len(key)) |-> "0"]

\* an HMAC that depends on the key alone
HmacOfKey(secret, message) == PadKey(Hex(Utf8(secret)))

\* crypto.createHmac('sha256', secret).update(message).digest('hex').
\* HMAC-SHA256 is taken as collision-free: the digest stands for the pair of
\* its key and the bytes of its message, and is written with hexadecimal
\* digits, as the real one is.  Strings that are the same key (they differ
\* in U+0000 at the end) or the same bytes (they differ in unpaired
\* surrogates) are one input of the HMAC and are not explored.
Hmac(secret, message) == PadKey(Hex(Utf8(secret))) \o Hex(Utf8(message))

\* crypto.timingSafeEqual(Buffer.from(a), Buffer.from(b)) inside try / catch:
\* it throws when the buffers differ in length, and the catch returns false
TimingSafeEqual(a, b) ==
    IF ByteLength(a) # ByteLength(b) THEN FALSE ELSE Utf8(a) = Utf8(b)

\* `${timestamp}.${payload}`
SignedPayload(timestamp, payload) == ToDecimal(timestamp) \o <<".">> \o payload

\* a header that names the scheme v0
SignatureHeaderV0(ts, signature) ==
    <<"t", "=">> \o ToDecimal(ts) \o <<",", "v", "0", "=">> \o signature

\* `t=${ts},v1=${signature}`
SignatureHeader(ts, signature) ==
    <<"t", "=">> \o ToDecimal(ts) \o <<",", "v", "1", "=">> \o signature

\* an optional argument: left out, or given
NoArg == [given |-> FALSE, value |-> 0]
Arg(v) == [given |-> TRUE, value |-> v]

\* generateSignature
GenerateSignature(payload, secret, timestamp, now) ==
    LET ts == IF timestamp.given THEN timestamp.value ELSE now
        signature == Hmac(secret, SignedPayload(ts, payload))
    IN  [timestamp |-> ts, signature |-> signature,
         header |-> SignatureHeader(ts, signature)]

\* what parseSignatureHeader returns: null, or {timestamp, signature}
NoParse == [isNull |-> TRUE, timestamp |-> 0, signature |-> <<>>]
Parsed(timestamp, signature) ==
    [isNull |-> FALSE, timestamp |-> timestamp, signature |-> signature]

\* parseSignatureHeader without `if (isNaN(timestamp) || !signature)`
ParseSignatureHeaderUnchecked(h) ==
    LET elements == Split(h)
        t == Find(elements, <<"t", "=">>)
        v == Find(elements, <<"v", "1", "=">>)
    IN  IF t = 0 \/ v = 0 THEN NoParse
        ELSE Parsed(ParseInt(SliceFrom(elements[t], 2)).value,
                    SliceFrom(elements[v], 3))

\* parseSignatureHeader
ParseSignatureHeader(h) ==
    LET elements == Split(h)
        t == Find(elements, <<"t", "=">>)
        v == Find(elements, <<"v", "1", "=">>)
    IN  IF t = 0 \/ v = 0 THEN NoParse
        ELSE LET timestamp == ParseInt(SliceFrom(elements[t], 2))
                 signature == SliceFrom(elements[v], 3)
             IN  IF timestamp.isNaN \/ signature = <<>> THEN NoParse
                 ELSE Parsed(timestamp.value, signature)

Abs(n) == IF n < 0 THEN 0 - n ELSE n

\* a freshness test that rejects old timestamps only
ExpiredOnly(now, timestamp, toleranceSeconds) ==
    now - timestamp > toleranceSeconds

\* Math.abs(now - timestamp) > toleranceSeconds
OutOfTolerance(now, timestamp, toleranceSeconds) ==
    Abs(now - timestamp) > toleranceSeconds

\* toleranceSeconds: number = 300
ToleranceSeconds(arg) == IF arg.given THEN arg.value ELSE 300

\* verifySignature
VerifySignature(payload, signatureHeader, secret, toleranceSeconds, now) ==
    LET p == ParseSignatureHeader(signatureHeader)
    IN  IF p.isNull THEN FALSE
        ELSE IF OutOfTolerance(now, p.timestamp, toleranceSeconds) THEN FALSE
        ELSE TimingSafeEqual(p.signature,
                 Hmac(secret, SignedPayload(p.timestamp, payload)))

\* payloads: the raw request body
Payloads == { <<>>, <<"a">>, <<"b">>, <<"a", ",", "b">>, <<"1", ".", "a">> }

\* signing secrets
Secrets == { <<"k">>, <<"j">>, <<"k", "j">> }

\* the clock, in seconds, when generateSignature is called
Nows == {300, 1000}

\* timestamp arguments, relative to the clock
Offsets == {0 - 600, 0 - 301, 0 - 300, 0 - 100, 0, 100, 300, 301, 600}

\* toleranceSeconds arguments
Tolerances == {NoArg, Arg(0), Arg(300), Arg(600)}

\* seconds between the generateSignature and the verifySignature call
Elapsed == {0, 1, 300, 301}

NoGen == [payload |-> <<>>, secret |-> <<>>, timestamp |-> NoArg,
          out |-> [timestamp |-> 0, signature |-> <<>>, header |-> <<>>]]
NoVer == [payload |-> <<>>, secret |-> <<>>, tolerance |-> NoArg,
          valid |-> FALSE]

SigIdle ==
    /\ sgPc = "start"
    /\ sgNow = 0
    /\ sgGen = NoGen
    /\ sgVer = NoVer

SigInit ==
    /\ sgPc = "start"
    /\ sgNow \in Nows
    /\ sgGen = NoGen
    /\ sgVer = NoVer

\* const { header } = generateSignature(payload, secret, timestamp)
Generate(p, s, t) ==
    /\ sgPc = "start"
    /\ sgPc' = "generated"
    /\ sgGen' = [payload |-> p, secret |-> s, timestamp |-> t,
                 out |-> GenerateSignature(p, s, t, sgNow)]
    /\ UNCHANGED <<sgNow, sgVer>>
    /\ UNCHANGED <<fwVars, sseVars, bkVars, lsVars, hdrVars, htVars, crVars>>

\* verifySignature(payload, header, secret, toleranceSeconds), called
\* `elapsed` seconds later
Verify(p, s, tolerance, elapsed) ==
    /\ sgPc = "generated"
    /\ sgPc' = "verified"
    /\ sgNow' = sgNow + elapsed
    /\ sgVer' = [payload |-> p, secret |-> s, tolerance |-> tolerance,
                 valid |-> VerifySignature(p, sgGen.out.header, s,
                               ToleranceSeconds(tolerance), sgNow + elapsed)]
    /\ UNCHANGED sgGen
    /\ UNCHANGED <<fwVars, sseVars, bkVars, lsVars, hdrVars, htVars, crVars>>

SigNext ==
    \/ \E p \in Payloads, s \in Secrets,
          t \in {NoArg} \cup {Arg(sgNow + off) : off \in Offsets} :
              Generate(p, s, t)
    \/ \E p \in Payloads, s \in Secrets, tolerance \in Tolerances,
          elapsed \in Elapsed : Verify(p, s, tolerance, elapsed)

\* the comma-free pieces headers are made of
ElementPool ==
    { <<>>,
      <<"t", "=", "1">>, <<"t", "=", "a">>, <<"t", "=">>,
      <<"t", "=", "-", "7">>, <<"t", "=", " ", "2", "x">>,
      <<"v", "1", "=", "a", "b">>, <<"v", "1", "=">>, <<"v", "1">>,
      <<"x">> }

\* Array.prototype.join(','): the string whose pieces are `elements`
RECURSIVE Join(_)
Join(elements) ==
    IF Len(elements) = 1 THEN elements[1]
    ELSE elements[1] \o <<",">> \o Join(Tail(elements))

\* the header arguments explored: every string of 1..MaxElements pieces
HeaderPieces == UNION { [1..n -> ElementPool] : n \in 1..MaxElements }

NotReturned == [returned |-> FALSE, value |-> NoParse]
Returned(v) == [returned |-> TRUE, value |-> v]

ParseIdle ==
    /\ hdrElements = <<>>
    /\ header = <<>>
    /\ parsed = NotReturned

ParseInit ==
    /\ hdrElements \in HeaderPieces
    /\ header = Join(hdrElements)
    /\ parsed = NotReturned

\* parseSignatureHeader(header)
ParseCall ==
    /\ ~parsed.returned
    /\ hdrElements # <<>>
    /\ parsed' = Returned(ParseSignatureHeader(header))
    /\ UNCHANGED <<hdrElements, header>>
    /\ UNCHANGED <<fwVars, sseVars, bkVars, lsVars, sgVars, htVars, crVars>>

-----------------------------------------------------------------------------
(* HttpClient: heartbeat and unregister *)

SessionIds == {"sess_1", "sess_2"}

\* How a fetch() call ends: with a response, whatever its status (fetch hands
\* over responses with a status from 200 to 599), or with a rejection.
HttpStatuses == 200..599
FetchResolved(status) == [resolved |-> TRUE, status |-> status]
FetchRejected == [resolved |-> FALSE, status |-> Undefined]
NoFetch == [resolved |-> FALSE, status |-> 0]
FetchOutcomes == {FetchResolved(status) : status \in HttpStatuses}
                     \cup {FetchRejected}

\* how the promise of an async method settles
Pending == [state |-> "pending", text |-> "", status |-> Undefined]
Resolved == [state |-> "resolved", text |-> "", status |-> Undefined]
Rejected(text, status) ==
    [state |-> "rejected", text |-> text, status |-> status]

\* heartbeat after `await fetch(...)`: a rejection of fetch passes through,
\* new Error(`Heartbeat failed: ${response.status}`) is thrown otherwise
HeartbeatOutcome(o) ==
    IF ~o.resolved THEN Rejected("fetch failed", Undefined)
    ELSE IF HeartbeatThrows(o.status)
    THEN Rejected("Heartbeat failed: ", o.status)
    ELSE Resolved

\* unregister without its try / catch
UnregisterUncaught(o) ==
    IF ~o.resolved THEN Rejected("fetch failed", Undefined) ELSE Resolved

\* unregister after `await fetch(...)`: try { ... } catch { }
UnregisterOutcome(o) == Resolved

NoCall == [method |-> "none", sessionId |-> ""]

Request(verb, sessionId, suffix) ==
    [verb |-> verb,
     path |-> <<"/v1/dev/listeners/", sessionId, suffix>>]

HttpIdle ==
    /\ htPc = "idle"
    /\ htCall = NoCall
    /\ htRequests = <<>>
    /\ htFetch = NoFetch
    /\ htOutcome = Pending

\* httpClient.heartbeat(sessionId), up to `await fetch`
HeartbeatCall(sessionId) ==
    /\ htPc = "idle"
    /\ htPc' = "fetch"
    /\ htCall' = [method |-> "heartbeat", sessionId |-> sessionId]
    /\ htRequests' = Append(htRequests, Request("POST", sessionId, "/heartbeat"))
    /\ UNCHANGED <<htFetch, htOutcome>>
    /\ UNCHANGED <<fwVars, sseVars, bkVars, lsVars, sgVars, hdrVars, crVars>>

\* httpClient.unregister(sessionId), up to `await fetch`
UnregisterCall(sessionId) ==
    /\ htPc = "idle"
    /\ htPc' = "fetch"
    /\ htCall' = [method |-> "unregister", sessionId |-> sessionId]
    /\ htRequests' = Append(htRequests, Request("DELETE", sessionId, ""))
    /\ UNCHANGED <<htFetch, htOutcome>>
    /\ UNCHANGED <<fwVars, sseVars, bkVars, lsVars, sgVars, hdrVars, crVars>>

\* the fetch of a heartbeat settles
HeartbeatFetchSettle(o) ==
    /\ htPc = "fetch"
    /\ htCall.method = "heartbeat"
    /\ htPc' = "settled"
    /\ htFetch' = o
    /\ htOutcome' = HeartbeatOutcome(o)
    /\ UNCHANGED <<htCall, htRequests>>
    /\ UNCHANGED <<fwVars, sseVars, bkVars, lsVars, sgVars, hdrVars, crVars>>

\* the fetch of an unregister settles
UnregisterFetchSettle(o) ==
    /\ htPc = "fetch"
    /\ htCall.method = "unregister"
    /\ htPc' = "settled"
    /\ htFetch' = o
    /\ htOutcome' = UnregisterOutcome(o)
    /\ UNCHANGED <<htCall, htRequests>>
    /\ UNCHANGED <<fwVars, sseVars, bkVars, lsVars, sgVars, hdrVars, crVars>>

HttpNext ==
    \/ \E sessionId \in SessionIds : HeartbeatCall(sessionId)
    \/ \E sessionId \in SessionIds : UnregisterCall(sessionId)
    \/ \E o \in FetchOutcomes : HeartbeatFetchSettle(o)
    \/ \E o \in FetchOutcomes : UnregisterFetchSettle(o)

-----------------------------------------------------------------------------
(* credentials.ts *)

\* an optional field that is undefined
UndefinedField == "undefined"

\* new Date(str).getTime() for the expiresAt strings explored
ExpiryStrings ==
    {"1970-01-01T00:00:00.001Z", "1970-01-01T00:00:00.002Z", "never"}
DateParse(str) ==
    CASE str = "1970-01-01T00:00:00.001Z" -> Number(1)
      [] str = "1970-01-01T00:00:00.002Z" -> Number(2)
      [] OTHER -> NaN

\* CliCredentials
Credentials(cliToken, accountId, expiresAt, accountServiceUrl, webhookServiceUrl) ==
    [cliToken |-> cliToken, accountId |-> accountId, expiresAt |-> expiresAt,
     accountServiceUrl |-> accountServiceUrl,
     webhookServiceUrl |-> webhookServiceUrl]

CredentialValues ==
    { Credentials(t, "acct_1", e, a, UndefinedField) :
          t \in {"tok_a", "tok_b"}, e \in ExpiryStrings,
          a \in {UndefinedField, "http://localhost:3000"} }

CredentialKeys ==
    <<"cliToken", "accountId", "expiresAt", "accountServiceUrl",
      "webhookServiceUrl">>

\* JSON.stringify(credentials, null, 2): the members in order; a member whose
\* value is undefined is left out
JsonStringify(c) ==
    LET Member(i) == <<CredentialKeys[i], c[CredentialKeys[i]]>>
        Defined(m) == m[2] # UndefinedField
    IN  SelectSeq([i \in 1..Len(CredentialKeys) |-> Member(i)], Defined)

\* JSON.parse(content) as CliCredentials: a member the text does not have
\* reads as undefined
JsonParse(text) ==
    [k \in {CredentialKeys[i] : i \in 1..Len(CredentialKeys)} |->
        IF \E i \in 1..Len(text) : text[i][1] = k
        THEN (text[CHOOSE i \in 1..Len(text) : text[i][1] = k])[2]
        ELSE UndefinedField]

\* the credentials file
NoFile == [exists |-> FALSE, text |-> <<>>]
File(text) == [exists |-> TRUE, text |-> text]

\* what the functions return
NoCredentialsValue ==
    Credentials("", "", "", UndefinedField, UndefinedField)
Nothing == [isNull |-> TRUE, value |-> NoCredentialsValue, valid |-> FALSE]
Found(c) == [isNull |-> FALSE, value |-> c, valid |-> TRUE]

\* an expiry test that also rejects credentials expiring now
ExpiredAtOrBefore(c, now) ==
    LET d == DateParse(c.expiresAt) IN ~d.isNaN /\ d.value <= now

\* new Date(credentials.expiresAt) < new Date()
Expired(c, now) ==
    LET d == DateParse(c.expiresAt) IN ~d.isNaN /\ d.value < now

\* loadCredentials: the value returned and the file it leaves
Load(file, now) ==
    IF ~file.exists THEN [result |-> Nothing, file |-> file]
    ELSE LET c == JsonParse(file.text)
         IN  IF Expired(c, now)
             THEN [result |-> Nothing, file |-> NoFile]
             ELSE [result |-> Found(c), file |-> file]

CredIdle ==
    /\ crFile = NoFile
    /\ crNow = 0
    /\ crSaved = NoCredentialsValue
    /\ crOp = "none"
    /\ crResult = Nothing

\* saveCredentials(credentials)
SaveCredentials(c) ==
    /\ crFile' = File(JsonStringify(c))
    /\ crSaved' = c
    /\ crOp' = "save"
    /\ crResult' = Nothing
    /\ UNCHANGED crNow
    /\ UNCHANGED <<fwVars, sseVars, bkVars, lsVars, sgVars, hdrVars, htVars>>

\* loadCredentials()
LoadCredentials ==
    /\ crResult' = Load(crFile, crNow).result
    /\ crFile' = Load(crFile, crNow).file
    /\ crOp' = "load"
    /\ UNCHANGED <<crNow, crSaved>>
    /\ UNCHANGED <<fwVars, sseVars, bkVars, lsVars, sgVars, hdrVars, htVars>>

\* hasValidCredentials(): loadCredentials() !== null
HasValidCredentials ==
    /\ crResult' = [Nothing EXCEPT !.valid = ~Load(crFile, crNow).result.isNull]
    /\ crFile' = Load(crFile, crNow).file
    /\ crOp' = "hasValid"
    /\ UNCHANGED <<crNow, crSaved>>
    /\ UNCHANGED <<fwVars, sseVars, bkVars, lsVars, sgVars, hdrVars, htVars>>

\* deleteCredentials()
DeleteCredentials ==
    /\ crFile' = NoFile
    /\ crOp' = "delete"
    /\ crResult' = Nothing
    /\ UNCHANGED <<crNow, crSaved>>
    /\ UNCHANGED <<fwVars, sseVars, bkVars, lsVars, sgVars, hdrVars, htVars>>

\* a millisecond passes
ClockTick ==
    /\ crNow < MaxClock
    /\ crNow' = crNow + 1
    /\ crOp' = "tick"
    /\ UNCHANGED <<crFile, crSaved, crResult>>
    /\ UNCHANGED <<fwVars, sseVars, bkVars, lsVars, sgVars, hdrVars, htVars>>

CredNext ==
    \/ \E c \in CredentialValues : SaveCredentials(c)
    \/ LoadCredentials
    \/ HasValidCredentials
    \/ DeleteCredentials
    \/ ClockTick

\* the library functions before any of them is called
LibIdle == SigIdle /\ ParseIdle /\ HttpIdle /\ CredIdle

-----------------------------------------------------------------------------
(* Specifications *)

Init == FwdInit /\ SseInit /\ BackoffIdle /\ ListenIdle /\ LibIdle

\* reconnect() entered with every attempt number and every jitter
BackoffStart == FwdInit /\ SseInit /\ BackoffInit /\ ListenIdle /\ LibIdle

\* the delay computation of reconnect()
BackoffSpec == BackoffStart /\ [][ComputeDelay]_vars

\* one run of the listen command
ListenSpec == Init /\ [][ListenNext]_vars

\* Every request of the shutdown handler settles (fetch ends with a response
\* or with an error of the transport, whose timeouts are finite).
FairListenSpec ==
    ListenSpec /\ WF_vars(\E status \in ServiceOutcomes : UnregisterSettle(status))

FwdSpec == Init /\ [][FwdNext]_vars

\* Every awaited promise settles: fetch within its 30 s timeout, the body read
\* with it, and sleep when its timer fires.
FairFwdSpec == FwdSpec /\ WF_vars(FwdNext)

SseSpec == Init /\ [][SseNext]_vars

\* the components that are not the library function under study, at rest
AppIdle == FwdInit /\ SseInit /\ BackoffIdle /\ ListenIdle

\* one generateSignature call and one verifySignature call on its header
SigStart == AppIdle /\ SigInit /\ ParseIdle /\ HttpIdle /\ CredIdle

SigSpec == SigStart /\ [][SigNext]_vars

\* one parseSignatureHeader call, for every header explored
ParseStart == AppIdle /\ SigIdle /\ ParseInit /\ HttpIdle /\ CredIdle

ParseSpec == ParseStart /\ [][ParseCall]_vars

\* one heartbeat or unregister call of an HttpClient
HttpSpec == Init /\ [][HttpNext]_vars

\* the credentials file through any sequence of calls, as time passes
CredSpec == Init /\ [][CredNext]_vars

-----------------------------------------------------------------------------
(* Properties of forwardWebhook *)

Settled == fwPc \in {"resolved", "rejected"}

\* a response that is neither 2xx nor 5xx
IsRejection(o) == o.status # Undefined /\ ~(o.status >= 200 /\ o.status <= 299)
                     /\ o.status < 500

\* C1: a call with maxRetries = N >= 0 issues at least 1 and at most N + 1
\* POSTs, whatever the target answers.
C1_AttemptBound ==
    (fwPc # "idle" /\ maxRetries >= 0) =>
        (posts >= 1 /\ posts <= maxRetries + 1)

C1_Witness ==
    /\ fwPc = "resolved"
    /\ maxRetries = MaxRetriesBound
    /\ posts = maxRetries + 1

\* C2: against a target answering 500 to every attempt, the call makes exactly
\* N + 1 attempts and resolves with success = false and statusCode 500.
C2_Always500 ==
    (Settled /\ maxRetries >= 0
        /\ \A i \in 1..Len(outcomes) : outcomes[i].status = 500) =>
            /\ fwPc = "resolved"
            /\ posts = maxRetries + 1
            /\ Len(outcomes) = maxRetries + 1
            /\ result.settled
            /\ result.success = FALSE
            /\ result.statusCode = 500

C2_Witness ==
    /\ fwPc = "resolved"
    /\ maxRetries = MaxRetriesBound
    /\ Len(outcomes) = maxRetries + 1
    /\ \A i \in 1..Len(outcomes) : outcomes[i].status = 500
    /\ result.statusCode = 500

\* C3: a non-2xx response with status below 500 ends the call at the attempt
\* where it arrives: no POST and no sleep follow it, and the result is
\* success = false with that status (a 404 on the first attempt: 1 attempt).
C3_NoRetryBelow500 ==
    \A i \in 1..Len(outcomes) :
        IsRejection(outcomes[i]) =>
            /\ i = Len(outcomes)
            /\ posts = i
            /\ Len(sleeps) = i - 1
            /\ fwPc \in {"text", "resolved"}
            /\ fwPc = "resolved" =>
                    /\ result.settled
                    /\ result.success = FALSE
                    /\ result.statusCode = outcomes[i].status

C3_Witness ==
    /\ fwPc = "resolved"
    /\ maxRetries = MaxRetriesBound
    /\ Len(outcomes) = 1
    /\ outcomes[1].status = 404
    /\ posts = 1
    /\ result.statusCode = 404

\* C4: the first 2xx response ends the call: success = true with that status,
\* and no POST after it (500 then 200 with maxRetries = 3: 2 attempts,
\* {success: true, statusCode: 200}).
C4_StopsAtFirst2xx ==
    \A i \in 1..Len(outcomes) :
        (outcomes[i].status >= 200 /\ outcomes[i].status <= 299) =>
            /\ i = Len(outcomes)
            /\ posts = i
            /\ fwPc \in {"text", "resolved"}
            /\ fwPc = "resolved" =>
                    /\ result.settled
                    /\ result.success = TRUE
                    /\ result.statusCode = outcomes[i].status

C4_Witness ==
    /\ fwPc = "resolved"
    /\ maxRetries = 3
    /\ Len(outcomes) = 2
    /\ outcomes[1].status = 500
    /\ outcomes[2].status = 200
    /\ posts = 2
    /\ result.success = TRUE
    /\ result.statusCode = 200

\* C5: a thrown fetch is retried while attempts remain; thrown on the last
\* allowed attempt it yields success = false, error = the message thrown and
\* no status code, even after an earlier 5xx of the same call.
C5_TransportError ==
    \A i \in 1..Len(outcomes) :
        (maxRetries >= 0 /\ outcomes[i].status = Undefined) =>
            IF i <= maxRetries
            THEN i = Len(outcomes) => (fwPc \in {"sleep", "fetch"}
                                        /\ Len(sleeps) = i)
            ELSE /\ i = Len(outcomes)
                 /\ fwPc = "resolved"
                 /\ posts = i
                 /\ result.settled
                 /\ result.success = FALSE
                 /\ result.error = MessageError(outcomes[i].message)
                 /\ result.statusCode = Undefined

C5_Witness ==
    /\ fwPc = "resolved"
    /\ Len(outcomes) = maxRetries + 1
    /\ maxRetries >= 1
    /\ outcomes[1].status = 500
    /\ outcomes[Len(outcomes)].status = Undefined
    /\ lastStatusCode = 500
    /\ result.statusCode = Undefined
    /\ result.error = MessageError("ECONNREFUSED")

\* C6: the promise of a call is never rejected, and every call that has
\* started ends resolved with a ForwardResult.
C6_NeverRaises ==
    /\ [](fwPc # "rejected")
    /\ (fwPc # "idle") ~> (fwPc = "resolved" /\ result.settled)

C6_Witness ==
    /\ fwPc = "resolved"
    /\ result.settled
    /\ Len(outcomes) = maxRetries + 1
    /\ maxRetries >= 1
    /\ \A i \in 1..Len(outcomes) : outcomes[i].status = Undefined
    /\ outcomes[1].message = "The operation was aborted due to timeout"

\* C32: the sleep between attempt i and attempt i + 1 (zero-based) lasts
\* 250 ms for i = 0, 1000 ms for i = 1 and 3000 ms for every i >= 2, after a
\* 5xx response and after a transport error alike; there is no sleep after
\* the last attempt, after a 2xx response or after a status below 500.
C32_RetryDelays ==
    /\ \A i \in 1..Len(sleeps) :
           /\ sleeps[i] = CASE i = 1 -> 250 [] i = 2 -> 1000 [] OTHER -> 3000
           /\ i <= Len(outcomes)
           /\ outcomes[i].status = Undefined \/ outcomes[i].status >= 500
           /\ i <= maxRetries
    /\ \A i \in 1..Len(outcomes) :
           (i < Len(outcomes) \/ fwPc \in {"sleep", "fetch"}) => i <= Len(sleeps)
    /\ fwPc = "resolved" => Len(sleeps) = Len(outcomes) - 1 \/ posts = 0
    /\ Len(sleeps) <= Len(outcomes)

\* four sleeps, after transport errors and 5xx responses, the last one past
\* the end of the table
C32_Witness ==
    /\ fwPc = "resolved"
    /\ sleeps = <<250, 1000, 3000, 3000>>
    /\ outcomes[1].status = Undefined
    /\ outcomes[2].status = 503
    /\ outcomes[4].status = Undefined
    /\ outcomes[5].status = 500

-----------------------------------------------------------------------------
(* Properties of SSEClient *)

\* C7: every request for the stream issued after a webhook event was decoded
\* carries, as Last-Event-ID, the id of the most recently decoded event.
C7_ResumeHeader ==
    \A i \in 1..Len(sent) : decodedId # "" => sent[i] = decodedId

\* C8: once close() has run, an error event invokes no callback and schedules
\* nothing, no step schedules a reconnect or reports a disconnect, and a
\* reconnect timer that fires opens no connection.
C8_CloseSuppressesReconnect ==
    [][isClosing =>
        /\ handler' = "error" =>
              /\ calls' = <<>>
              /\ reconnectAttempts' = reconnectAttempts
              /\ exhausted' = exhausted
        /\ handler' = "timer" =>
              /\ sent' = <<>>
              /\ eventSource' = Null
              /\ others' = others
        /\ timers' <= timers
        /\ \A i \in 1..Len(calls') :
              calls'[i].name \notin {"onDisconnected", "onReconnecting"}]_vars

C8_Witness ==
    /\ isClosing
    /\ handler = "timer"
    /\ eventSource = Null

\* C9: close() on a client that was closed before changes none of isClosing,
\* eventSource, lastEventId, reconnectAttempts, invokes no callback and does
\* not throw.
C9_CloseIdempotent ==
    [][(isClosing /\ handler' \in {"close", "close again"}) =>
        /\ isClosing' = isClosing
        /\ eventSource' = eventSource
        /\ lastEventId' = lastEventId
        /\ reconnectAttempts' = reconnectAttempts
        /\ others' = others
        /\ timers' = timers
        /\ calls' = <<>>
        /\ thrown' = FALSE]_vars

C9_Witness ==
    /\ handler = "close again"
    /\ isClosing
    /\ eventSource = Null
    /\ ~thrown

\* C10: an error event that finds reconnectAttempts = 10 on a client that is
\* not closing reports 'Max reconnection attempts reached' through
\* onDisconnected, does not invoke onReconnecting and schedules nothing; from
\* then on the client stays disconnected and issues no request for the stream.
C10_ExhaustionTerminal ==
    [][/\ (handler' = "error" /\ ~isClosing
              /\ reconnectAttempts = maxReconnectAttempts) =>
              /\ calls' = <<Callback("onDisconnected", "SSE connection error", 0),
                            Callback("onDisconnected",
                                     "Max reconnection attempts reached", 0)>>
              /\ timers' = timers
              /\ reconnectAttempts' = reconnectAttempts
       /\ exhausted => (sent' = <<>> /\ handler' # "open")]_vars

\* a well-formed notification is handed to onWebhook
Delivery ==
    \E w \in Sources, ev \in WebhookEvents :
        ~Throws(ev) /\ ~ev.isNull /\ OnWebhook(w, ev)

\* the connections of the client: each EventSource with its state and the
\* headers of its requests
Connection(src) == [state |-> src.state, headers |-> src.headers]
Connections ==
    [current |-> Connection(eventSource),
     others |-> {Connection(o) : o \in BagToSet(others)}]

\* C12: a webhook event whose data JSON.parse rejects is dropped: onWebhook
\* is not invoked, lastEventId, reconnectAttempts, the timers and the
\* connections are as before, no exception escapes the listener, and a
\* well-formed event arriving next on the stream is handed to onWebhook.
C12_MalformedDropped ==
    /\ [][handler' = "webhook" => (~thrown' /\ (caught' \/ Len(calls') = 1))]_vars
    /\ [][(handler' = "webhook" /\ caught') =>
             /\ calls' = <<>>
             /\ thrown' = FALSE
             /\ lastEventId' = lastEventId
             /\ reconnectAttempts' = reconnectAttempts
             /\ isClosing' = isClosing
             /\ timers' = timers
             /\ exhausted' = exhausted
             /\ Connections' = Connections
             /\ BagCardinality(others') = BagCardinality(others)]_vars
    /\ []((handler = "webhook" /\ caught) => ENABLED Delivery)

C12_Witness ==
    /\ handler = "webhook"
    /\ caught
    /\ eventSource.state = "open"
    /\ lastEventId = "evt_7"

\* C28: at most one EventSource that has not been closed exists per SSEClient
\* at any time.
C28_SingleConnection == LiveCount <= 1

\* C29: an error event on a client that is not closing and has
\* reconnectAttempts < 10 invokes onDisconnected(error), then increments
\* reconnectAttempts by exactly 1, then invokes onReconnecting with the new
\* value, and schedules exactly one reconnect timer; a timer firing on a
\* client that is not closing creates exactly one EventSource, which issues
\* exactly one request.
C29_ErrorSequence ==
    [][/\ (handler' = "error" /\ ~isClosing
                /\ reconnectAttempts < maxReconnectAttempts) =>
            /\ calls' = <<Callback("onDisconnected", "SSE connection error", 0),
                          Callback("onReconnecting", "",
                                   reconnectAttempts + 1)>>
            /\ reconnectAttempts' = reconnectAttempts + 1
            /\ timers' = timers + 1
            /\ sent' = <<>>
       /\ (handler' = "timer" /\ ~isClosing) =>
            /\ timers' = timers - 1
            /\ Len(sent') = 1
            /\ eventSource'.state = "fetching"
            /\ LiveCount' = LiveCount + 1
            /\ calls' = <<>>]_vars

C29_Witness ==
    /\ handler = "error"
    /\ ~isClosing
    /\ Len(calls) = 2
    /\ calls[1].name = "onDisconnected"
    /\ calls[2] = Callback("onReconnecting", "", 3)
    /\ reconnectAttempts = 3
    /\ timers = 1

\* C30: every open event sets reconnectAttempts to 0 and invokes onConnected
\* (and nothing else); between opens the counter changes only in error
\* events, by exactly one per error while the budget of 10 lasts and the
\* client is not closing, and not at all otherwise.
C30_OpenResetsBudget ==
    [][/\ handler' = "open" =>
            /\ reconnectAttempts' = 0
            /\ calls' = <<Callback("onConnected", "", 0)>>
       /\ handler' = "error" =>
            reconnectAttempts' =
                IF ~isClosing /\ reconnectAttempts < maxReconnectAttempts
                THEN reconnectAttempts + 1 ELSE reconnectAttempts
       /\ handler' \notin {"open", "error"} =>
            reconnectAttempts' = reconnectAttempts
       /\ reconnectAttempts' \in 0..maxReconnectAttempts]_vars

\* an open after the budget had been used up
C30_Witness ==
    /\ handler = "open"
    /\ exhausted
    /\ reconnectAttempts = 0
    /\ calls = <<Callback("onConnected", "", 0)>>

C37_SilentAfterClose == isClosing => calls = <<>>

\* C38: 0 <= reconnectAttempts <= 10 in every state, and onReconnecting is
\* only ever invoked with an attempt number in 1..10.
C38_AttemptRange ==
    /\ reconnectAttempts \in 0..maxReconnectAttempts
    /\ \A i \in 1..Len(calls) :
           calls[i].name = "onReconnecting" =>
               calls[i].n \in 1..maxReconnectAttempts

\* the tenth reconnect in a row
C38_Witness ==
    /\ handler = "error"
    /\ reconnectAttempts = maxReconnectAttempts
    /\ Len(calls) = 2
    /\ calls[2] = Callback("onReconnecting", "", maxReconnectAttempts)

\* C39: at most one reconnect timer is pending at any time.
C39_OneTimer == timers <= 1

\* the EventSource objects of the client that are open on the stream
OpenCount ==
    (IF eventSource.state = "open" THEN 1 ELSE 0)
        + BagCardinality([o \in {q \in BagToSet(others) : q.state = "open"}
                              |-> others[o]])

C34_NothingNewAfterClose ==
    isClosing =>
        /\ sent = <<>>
        /\ \A i \in 1..Len(calls) : calls[i].name # "onWebhook"

-----------------------------------------------------------------------------
(* Properties of the reconnect delay *)

\* C13: for every attempt number k in 1..10 and every jitter in [0, 1000) ms
\* the scheduled delay is at most 30000 ms; it is exactly 30000 ms for every
\* k >= 6, and below the cap, base * 2^(k-1) plus the jitter, for k <= 5.
C13_BackoffCap ==
    delay # Undefined =>
        /\ delay <= 30000
        /\ delay >= reconnectBaseDelay
        /\ bkAttempts >= 6 => delay = 30000
        /\ bkAttempts <= 5 =>
              /\ delay = 1000 * 2 ^ (bkAttempts - 1) + bkRandom
              /\ delay < 30000

C13_Witness ==
    /\ delay = 30000
    /\ bkAttempts = maxReconnectAttempts
    /\ bkRandom = 999

-----------------------------------------------------------------------------
(* Properties of listen *)

\* the Authorization credential of every request of the HttpClient and of
\* the headers it gives the SSE client
Authorization(client) == <<"ApiKey", client.apiKey>>

\* the cleanup runs that have started
CleanupRuns == Len(SelectSeq(shutdown, LAMBDA op : op = "unregister"))

\* the last n operations of the shutdown handler
LastOps(n) == SubSeq(shutdown', Len(shutdown') - n + 1, Len(shutdown'))

\* C11: the onWebhook invocations of one client are started in arrival order
\* and no two of them, the delivery each performs included, are in progress
\* at the same time.
C11_OneAtATime == Cardinality(Forwarding) <= 1

C15_HeartbeatNotFatal ==
    /\ [][heartbeats' < heartbeats =>
             /\ pc' = pc /\ exitCode' = exitCode
             /\ heartbeatInterval' = heartbeatInterval
             /\ isClosing' = isClosing /\ eventSource' = eventSource
             /\ unregisters' = unregisters]_vars
    /\ []((hbLast = "failed" /\ pc = "running" /\ CleanupRuns = 0
             /\ ~noHeartbeat /\ heartbeats < MaxHeartbeats)
            => (heartbeatInterval = "armed" /\ ENABLED HeartbeatTick))

C15_Witness ==
    /\ hbLast = "failed"
    /\ heartbeats = 1
    /\ pc = "running"
    /\ heartbeatInterval = "armed"
    /\ ~isClosing

\* C16: once the registration has succeeded the process ends only with exit
\* code 0 from the shutdown handler; an exit with another code happens only
\* before, on an authentication or registration failure.
C16_OnlyShutdownExits ==
    [][(pc = "running" /\ pc' = "exited") =>
          (exitCode' = 0 /\ unregisters > 0)]_vars

\* C17: when an API key is supplied, by option or else by the environment,
\* that key (the option first) is the credential of the HttpClient, and so of
\* the registration, the heartbeats and the stream; the stored token and the
\* stored account are not used even when stored credentials exist.  The
\* stored token is the credential only when no key is supplied.
C17_KeyPrecedence ==
    /\ [][(pc = "resolve" /\ pc' = "registering") =>
             /\ inputs.apiKey # NoKey =>
                   Authorization(httpClient') = <<"ApiKey", inputs.apiKey>>
             /\ (inputs.apiKey = NoKey /\ inputs.configApiKey # NoKey) =>
                   Authorization(httpClient') = <<"ApiKey", inputs.configApiKey>>
             /\ (inputs.apiKey # NoKey \/ inputs.configApiKey # NoKey) =>
                   /\ httpClient'.apiKey # CliToken
                   /\ httpClient'.accountId = inputs.configAccountId
                   /\ authMethod' = "api_key"
             /\ (inputs.apiKey = NoKey /\ inputs.configApiKey = NoKey) =>
                   /\ httpClient' = [apiKey |-> inputs.credentials.cliToken,
                                     accountId |-> inputs.credentials.accountId]
                   /\ httpClient'.apiKey = CliToken
                   /\ authMethod' = "cli_token"]_vars
    /\ [][(pc \in {"registering", "running"}) =>
             (httpClient' = httpClient /\ authMethod' = authMethod)]_vars

C17_Witness ==
    /\ pc = "running"
    /\ inputs.apiKey = KeyTest
    /\ inputs.configApiKey = KeyLive
    /\ inputs.credentials \in StoredCredentials
    /\ httpClient = [apiKey |-> KeyTest, accountId |-> "acc_env"]
    /\ heartbeats = 1

\* the key listen would use does not start with sk_test_ or sk_live_
BadPrefix(key) ==
    key # NoKey /\ \A prefix \in {SkTest, SkLive} :
        Len(key) < Len(prefix) \/ \E n \in 1..Len(prefix) : key[n] # prefix[n]

\* C18: with neither an API key nor stored credentials, or with an API key
\* that does not start with sk_test_ or sk_live_, listen exits with code 1 and
\* has sent no registration request, set no heartbeat timer and opened no
\* stream.
C18_AuthErrorsFatal ==
    /\ [][(pc = "resolve"
            /\ \/ (ApiKey(inputs) = NoKey /\ inputs.credentials = NoCredentials)
               \/ BadPrefix(ApiKey(inputs))) =>
             /\ pc' = "exited" /\ exitCode' = 1
             /\ registrations' = 0
             /\ heartbeatInterval' = "null" /\ heartbeats' = 0
             /\ ~connected' /\ eventSource' = Null /\ sent' = <<>>]_vars
    /\ [](registrations = 0 =>
             (heartbeatInterval = "null" /\ heartbeats = 0 /\ ~connected
                /\ pc \in {"start", "resolve", "exited"}))

C18_Witness ==
    /\ pc = "exited"
    /\ exitCode = 1
    /\ registrations = 0
    /\ inputs.apiKey = NoKey
    /\ inputs.configApiKey = KeyShort
    /\ inputs.credentials \in StoredCredentials

\* the registration request failed: a response outside 2xx, or no response
RegistrationFailed(o) ==
    o.status = Undefined \/ o.status < 200 \/ o.status > 299

\* C19: when the registration request gets a non-2xx response or fails at the
\* transport level, listen exits with code 1, and the heartbeat timer and the
\* SSE client are never started.
C19_RegistrationErrorsFatal ==
    /\ [][(pc = "registering" /\ pc' # pc /\ RegistrationFailed(registerResponse')) =>
             /\ pc' = "exited" /\ exitCode' = 1
             /\ heartbeatInterval' = "null" /\ heartbeats' = 0
             /\ ~connected' /\ eventSource' = Null]_vars
    /\ []((pc = "exited" /\ registrations = 1
             /\ RegistrationFailed(registerResponse)) =>
               (exitCode = 1 /\ heartbeatInterval = "null" /\ ~connected))
    /\ [][pc = "exited" => UNCHANGED vars]_vars

C19_Witness ==
    /\ pc = "exited"
    /\ exitCode = 1
    /\ registerResponse = [status |-> 401, json |-> TRUE]
    /\ ~noHeartbeat
    /\ heartbeatInterval = "null"
    /\ ~connected

\* the invocations whose delivery ended in the given state
Ended(state) == {i \in 1..Len(invocations) : invocations[i].state = state}

\* C20: every forwardWebhook call that completes increments exactly one of the
\* two counters by 1, deliveredCount exactly when the result has success =
\* true; the counters never decrease; their sum never exceeds the number of
\* notifications passed to onWebhook; one notification whose delivery
\* succeeded gives delivered = 1, failed = 0.
C20_Statistics ==
    /\ [][/\ deliveredCount' >= deliveredCount
          /\ failedCount' >= failedCount
          /\ \A i \in Forwarding :
                invocations'[i].state # "forwarding" =>
                   /\ deliveredCount' + failedCount'
                         = deliveredCount + failedCount + 1
                   /\ invocations'[i].state = "delivered"
                         <=> deliveredCount' = deliveredCount + 1
                   /\ invocations'[i].state = "failed"
                         <=> failedCount' = failedCount + 1
          /\ Forwarding \subseteq Forwarding' =>
                (deliveredCount' = deliveredCount
                   /\ failedCount' = failedCount)]_vars
    /\ [](/\ deliveredCount = Cardinality(Ended("delivered"))
          /\ failedCount = Cardinality(Ended("failed"))
          /\ deliveredCount + failedCount <= Len(invocations)
          /\ (Len(invocations) = 1 /\ invocations[1].state = "delivered") =>
                (deliveredCount = 1 /\ failedCount = 0))

C20_Witness ==
    /\ Len(invocations) = 2
    /\ invocations[1].state = "failed"
    /\ invocations[2].state = "delivered"
    /\ deliveredCount = 1
    /\ failedCount = 1
    /\ report = <<1, 1>>

\* C35: heartbeat and delivery are independent: while forwardWebhook calls
\* are in progress the interval callback still sends its heartbeat, a
\* heartbeat in progress does not delay the start of a delivery, and
\* neither changes the state of the other.
C35_Independent ==
    /\ []((pc = "running" /\ heartbeatInterval = "armed"
              /\ heartbeats < MaxHeartbeats)
            => ENABLED HeartbeatTick)
    /\ []((pc = "running" /\ connected /\ ~isClosing
              /\ Len(invocations) < MaxNotifications)
            => \A id \in Ids :
                   ENABLED ClientCallback(Callback("onWebhook", id, 0)))
    /\ [][heartbeats' # heartbeats =>
             (invocations' = invocations
                /\ deliveredCount' = deliveredCount
                /\ failedCount' = failedCount)]_vars
    /\ [][invocations' # invocations =>
             (heartbeats' = heartbeats
                /\ hbLast' = hbLast
                /\ heartbeatInterval' = heartbeatInterval)]_vars

\* a heartbeat request and two deliveries in flight together, after an
\* earlier heartbeat has been answered
C35_Witness ==
    /\ pc = "running"
    /\ heartbeats = 1
    /\ hbLast = "ok"
    /\ Cardinality(Forwarding) = 2

\* C36: a forwardWebhook call that returns success = false increments
\* failedCount and changes nothing else of the session: the SSE client (its
\* connection, lastEventId, reconnectAttempts), the heartbeat timer, the
\* other invocations and the process are as before, and the next
\* notification is still forwarded.
C36_FailureIsLocal ==
    /\ [][\A i \in Forwarding :
             invocations'[i].state = "failed" =>
                 /\ failedCount' = failedCount + 1
                 /\ deliveredCount' = deliveredCount
                 /\ sseVars' = sseVars
                 /\ heartbeatInterval' = heartbeatInterval
                 /\ heartbeats' = heartbeats
                 /\ hbLast' = hbLast
                 /\ pc' = pc
                 /\ exitCode' = exitCode
                 /\ unregisters' = unregisters
                 /\ shutdown' = shutdown
                 /\ registrations' = registrations
                 /\ \A j \in 1..Len(invocations) :
                        j # i => invocations'[j] = invocations[j]]_vars
    /\ []((Ended("failed") # {} /\ pc = "running" /\ connected /\ ~isClosing
              /\ Len(invocations) < MaxNotifications)
            => \A id \in Ids :
                   ENABLED ClientCallback(Callback("onWebhook", id, 0)))

\* the delivery of evt_7 has failed; evt_8 is being forwarded on the same
\* connection with the heartbeat timer still armed
C36_Witness ==
    /\ pc = "running"
    /\ invocations = <<[id |-> "evt_7", state |-> "failed"],
                       [id |-> "evt_8", state |-> "forwarding"]>>
    /\ failedCount = 1
    /\ deliveredCount = 0
    /\ heartbeatInterval = "armed"
    /\ ~isClosing
    /\ Live(eventSource)

-----------------------------------------------------------------------------
(* Properties of the signature functions *)

\* verifySignature is given the payload and the secret that were signed
SameMessage ==
    /\ sgVer.payload = sgGen.payload
    /\ sgVer.secret = sgGen.secret

\* |now - timestamp| <= toleranceSeconds when verifySignature runs
WithinTolerance ==
    Abs(sgNow - sgGen.out.timestamp) <= ToleranceSeconds(sgVer.tolerance)

\* C21: for all payloads p, secrets s and integer timestamps t with
\* |now - t| <= tolerance, the timestamp left out (the current time) included,
\* verifySignature(p, generateSignature(p, s, t).header, s) returns true.
C21_RoundTrip ==
    /\ (sgPc = "generated" /\ ~sgGen.timestamp.given) =>
           sgGen.out.timestamp = sgNow
    /\ (sgPc # "start" /\ sgGen.timestamp.given) =>
           sgGen.out.timestamp = sgGen.timestamp.value
    /\ (sgPc = "verified" /\ SameMessage /\ WithinTolerance) => sgVer.valid

\* the header carries the time of its generation and is verified 300 s later
\* with the default tolerance
C21_Witness ==
    /\ sgPc = "verified"
    /\ SameMessage
    /\ ~sgGen.timestamp.given
    /\ ~sgVer.tolerance.given
    /\ sgNow = sgGen.out.timestamp + 300
    /\ sgVer.valid

C23_Freshness ==
    sgPc = "verified" =>
        /\ ~WithinTolerance => ~sgVer.valid
        /\ (SameMessage /\ WithinTolerance) => sgVer.valid
        /\ (SameMessage /\ sgVer.tolerance = Arg(300)) =>
               /\ sgNow - sgGen.out.timestamp = 600 => ~sgVer.valid
               /\ sgNow - sgGen.out.timestamp = 100 => sgVer.valid
               /\ sgNow - sgGen.out.timestamp = 300 => sgVer.valid
               /\ sgGen.out.timestamp - sgNow = 300 => sgVer.valid

\* a correctly signed header whose timestamp is 301 s ahead of the clock
C23_Witness ==
    /\ sgPc = "verified"
    /\ SameMessage
    /\ sgVer.tolerance = Arg(300)
    /\ sgGen.out.timestamp - sgNow = 301
    /\ ~sgVer.valid

\* after leading blanks and one sign, the segment does not begin with a digit
NoIntegerPrefix(segment) ==
    LET t == TrimStart(segment)
        u == IF Len(t) > 0 /\ t[1] \in {"+", "-"} THEN Tail(t) ELSE t
    IN  Len(u) = 0 \/ ~IsDigit(u[1])

\* the pieces of the header that start with `prefix`, in order
Starting(prefix) ==
    SelectSeq(hdrElements, LAMBDA e : StartsWith(e, prefix))

\* C24: parseSignatureHeader returns, for every header, null or a record of
\* an integer timestamp and a non-empty signature, and never throws; it
\* returns null when no comma-separated element starts with 't=', when none
\* starts with 'v1=', when the segment after 't=' does not parse as an
\* integer, and when the segment after 'v1=' is empty.
C24_ParseTotal ==
    parsed.returned =>
        LET ts == Starting(<<"t", "=">>)
            vs == Starting(<<"v", "1", "=">>)
        IN  /\ \/ parsed.value = NoParse
               \/ /\ ~parsed.value.isNull
                  /\ parsed.value.timestamp \in Int
                  /\ Len(parsed.value.signature) > 0
                  /\ Len(ts) > 0 /\ Len(vs) > 0
                  /\ parsed.value.signature = SliceFrom(vs[1], 3)
            /\ Len(ts) = 0 => parsed.value.isNull
            /\ Len(vs) = 0 => parsed.value.isNull
            /\ (Len(ts) > 0 /\ NoIntegerPrefix(SliceFrom(ts[1], 2))) =>
                   parsed.value.isNull
            /\ (Len(vs) > 0 /\ Len(vs[1]) = 3) => parsed.value.isNull

\* 't=a,v1=ab': both prefixes present, the timestamp is not a number
C24_Witness ==
    /\ parsed.returned
    /\ hdrElements = << <<"t", "=", "a">>, <<"v", "1", "=", "a", "b">> >>
    /\ parsed.value.isNull

-----------------------------------------------------------------------------
(* Properties of HttpClient *)

\* C25: heartbeat(sessionId) resolves when the status of the response is 2xx
\* (204 included) and rejects with 'Heartbeat failed: <status>' for every
\* other status.
C25_HeartbeatOutcome ==
    (htPc = "settled" /\ htCall.method = "heartbeat" /\ htFetch.resolved) =>
        /\ htFetch.status \in 200..299 => htOutcome = Resolved
        /\ htFetch.status \notin 200..299 =>
               htOutcome = Rejected("Heartbeat failed: ", htFetch.status)
        /\ htRequests =
               <<[verb |-> "POST",
                  path |-> <<"/v1/dev/listeners/", htCall.sessionId,
                             "/heartbeat">>]>>

C25_Witness ==
    /\ htPc = "settled"
    /\ htCall.method = "heartbeat"
    /\ htFetch = FetchResolved(304)
    /\ htOutcome = Rejected("Heartbeat failed: ", 304)

\* C26: unregister(sessionId) never rejects: it resolves with undefined when
\* the DELETE request fails at the transport and when the server answers with
\* any status.
C26_UnregisterNeverRejects ==
    /\ htCall.method = "unregister" => htOutcome.state # "rejected"
    /\ (htPc = "settled" /\ htCall.method = "unregister") =>
           /\ htOutcome = Resolved
           /\ htRequests =
                  <<[verb |-> "DELETE",
                     path |-> <<"/v1/dev/listeners/", htCall.sessionId, "">>]>>

C26_Witness ==
    /\ htPc = "settled"
    /\ htCall.method = "unregister"
    /\ htFetch = FetchRejected
    /\ htOutcome = Resolved

-----------------------------------------------------------------------------
(* Properties of the stored credentials *)

\* the instant named by expiresAt lies before now
InThePast(expiresAt, now) ==
    \/ expiresAt = "1970-01-01T00:00:00.001Z" /\ now > 1
    \/ expiresAt = "1970-01-01T00:00:00.002Z" /\ now > 2

\* C27: while the credentials stored by the last saveCredentials are
\* unexpired, loadCredentials returns exactly them (and hasValidCredentials
\* true) and leaves the file; once their expiresAt is in the past it returns
\* null and deletes the file; with no file, every loadCredentials returns
\* null and hasValidCredentials false, until credentials are saved again.
C27_StoredCredentials ==
    [][/\ (crFile.exists /\ ~InThePast(crSaved.expiresAt, crNow)) =>
            /\ crOp' = "load" => crResult' = Found(crSaved)
            /\ crOp' = "hasValid" => crResult'.valid
            /\ crOp' \in {"load", "hasValid"} => crFile' = crFile
       /\ (crFile.exists /\ InThePast(crSaved.expiresAt, crNow)
               /\ crOp' \in {"load", "hasValid"}) =>
            /\ crResult'.isNull
            /\ ~crResult'.valid
            /\ ~crFile'.exists
       /\ (~crFile.exists /\ crOp' # "save") =>
            /\ ~crFile'.exists
            /\ crOp' = "load" => crResult' = Nothing
            /\ crOp' = "hasValid" => ~crResult'.valid
       /\ crOp' = "save" => (crFile'.exists /\ crSaved' \in CredentialValues)
      ]_vars

\* credentials that expired at 2 ms, loaded at 3 ms: null, and the file is gone
C27_Witness ==
    /\ crOp = "load"
    /\ crSaved.expiresAt = "1970-01-01T00:00:00.002Z"
    /\ crNow = 3
    /\ crResult = Nothing
    /\ ~crFile.exists

====
